---- MODULE Spec2Model ----
(***************************************************************************)
(* ROMCopyEngine: selective replication of a directory tree followed by    *)
(* explosion, rename and rewrite of the destination.                       *)
(*                                                                         *)
(* The filesystem is a function from paths to entries.  A path is a        *)
(* sequence of names (the separator-normalised form filepath.Join,         *)
(* filepath.Rel and filepath.ToSlash compute), a name is a string, and an  *)
(* entry is a regular file (bytes and permission bits) or a directory      *)
(* (permission bits).  Symbolic links and devices are outside the model.   *)
(* The process is taken to have permission for every call it makes: the    *)
(* calls fail only for the structural reasons the kernel gives (no such    *)
(* entry, not a directory, is a directory, directory exists), and          *)
(* os.Rename may in addition fail between two devices.                     *)
(***************************************************************************)
EXTENDS Integers, Sequences, FiniteSets, TLC

VARIABLES
    fs,            \* the filesystem: path -> entry
    pc,            \* position of the program
    config,        \* the parsed command line (cli_parsing.Config)
    mi,            \* index of the mapping being processed
    err,           \* error returned by the last call, "nil" when none
    log,           \* what was logged by the call in progress
    returned,      \* the errors the finished calls returned, in order
    fsAtCall,      \* the filesystem when the call in progress started
    fs0,           \* the filesystem at the start
    copyArgs,      \* arguments of the CopyFiles call in progress
    dirsToCreate,  \* CopyFiles: destination directory -> mode (pass 1's record)
    walk,          \* CopyFiles: source paths pass 2 has still to visit
    runs,          \* number of CopyFiles calls started
    ei,            \* explodeDirs: index of the directory name at hand
    items,         \* ExplodeFolder: the children still to move
    found,         \* ExplodeFolder, SearchAndReplace: the boolean result
    ri,            \* processRenames: index of the rename pair at hand
    wi,            \* processRewrites: index of the rewrite rule at hand
    matches,       \* SearchAndReplace: the matched paths still to rewrite
    loopback,      \* the CopyFiles call in progress is the loopback copy
    prompted,      \* the confirmation prompt has been shown
    moveArgs,      \* arguments of a moveItem call made on its own
    stdin,         \* what is left to read of the standard input
    confirmation   \* what GetConfirmation returned: "none" while it runs

copyVars == <<copyArgs, dirsToCreate, walk, runs>>

explodeVars == <<ei, items, found>>

mainVars == <<ri, wi, matches, loopback, prompted>>

unitVars == <<moveArgs, stdin, confirmation>>

vars == <<fs, pc, config, mi, err, log, returned, fsAtCall, fs0, copyVars, explodeVars, mainVars, unitVars>>

-----------------------------------------------------------------------------
(* Strings: byte order of names, as sort.Strings / os.ReadDir order them.  *)

CharOrder == "*-.0123456789?ABCDEFGHIJKLMNOPQRSTUVWXYZ_abcdefghijklmnopqrstuvwxyz"

CharRank(c) == CHOOSE i \in 1..Len(CharOrder) : SubSeq(CharOrder, i, i) = c

RECURSIVE LessStr(_, _)
LessStr(a, b) ==
    IF b = "" THEN FALSE
    ELSE IF a = "" THEN TRUE
    ELSE IF Head(a) = Head(b) THEN LessStr(Tail(a), Tail(b))
    ELSE CharRank(Head(a)) < CharRank(Head(b))

RECURSIVE SortNames(_)
SortNames(S) ==
    IF S = {} THEN <<>>
    ELSE LET m == CHOOSE x \in S : \A y \in S \ {x} : LessStr(x, y)
         IN  <<m>> \o SortNames(S \ {m})

\* strings.ToLower, on the letters of ASCII
UpperCase == "ABCDEFGHIJKLMNOPQRSTUVWXYZ"

LowerCase == "abcdefghijklmnopqrstuvwxyz"

RECURSIVE ToLower(_)
ToLower(s) ==
    IF s = "" THEN ""
    ELSE LET c == SubSeq(s, 1, 1)
             up == {i \in 1..Len(UpperCase) : SubSeq(UpperCase, i, i) = c}
         IN  (IF up = {} THEN c
              ELSE LET i == CHOOSE i \in up : TRUE IN SubSeq(LowerCase, i, i))
             \o ToLower(Tail(s))

\* the white space strings.TrimSpace cuts off both ends
WhiteSpace == {" ", "\t", "\n", "\r", "\f"}

RECURSIVE TrimLeft(_)
TrimLeft(s) ==
    IF s # "" /\ SubSeq(s, 1, 1) \in WhiteSpace THEN TrimLeft(Tail(s)) ELSE s

RECURSIVE TrimRight(_)
TrimRight(s) ==
    IF s # "" /\ SubSeq(s, Len(s), Len(s)) \in WhiteSpace
    THEN TrimRight(SubSeq(s, 1, Len(s) - 1))
    ELSE s

TrimSpace(s) == TrimRight(TrimLeft(s))

-----------------------------------------------------------------------------
(* Paths and the filesystem calls of package os.                           *)

Parent(p) == SubSeq(p, 1, Len(p) - 1)

Base(p) == p[Len(p)]

IsPrefix(a, b) == Len(a) <= Len(b) /\ SubSeq(b, 1, Len(a)) = a

\* filepath.Rel(base, p) for p at or below base; <<>> is "."
Rel(base, p) == SubSeq(p, Len(base) + 1, Len(p))

Join(a, b) == a \o b

FileEntry(data, mode) == [kind |-> "file", data |-> data, mode |-> mode]

DirEntry(mode) == [kind |-> "dir", data |-> "", mode |-> mode]

\* os.Stat(p) succeeds; the root "/" (the empty path) always exists
Exists(f, p) == p = <<>> \/ p \in DOMAIN f

IsDir(f, p) == p = <<>> \/ (p \in DOMAIN f /\ f[p].kind = "dir")

IsFile(f, p) == p \in DOMAIN f /\ f[p].kind = "file"

\* the paths at or below p
Subtree(f, p) == {q \in DOMAIN f : IsPrefix(p, q)}

ChildNames(f, p) == {q[Len(p) + 1] : q \in {r \in DOMAIN f : Len(r) = Len(p) + 1 /\ IsPrefix(p, r)}}

\* os.ReadDir(p): the entries' names, sorted by filename
ReadDir(f, p) == SortNames(ChildNames(f, p))

\* f with the entries of g added or replaced
Overlay(f, g) == [p \in DOMAIN f \cup DOMAIN g |-> IF p \in DOMAIN g THEN g[p] ELSE f[p]]

Without(f, D) == [p \in DOMAIN f \ D |-> f[p]]

Prefixes(p) == {SubSeq(p, 1, n) : n \in 1..Len(p)}

\* os.MkdirAll(p, mode): every missing directory of p is created with mode;
\* an existing directory is no error, a file on the way is one.
MkdirAllOk(f, p) == \A q \in Prefixes(p) : ~IsFile(f, q)

MkdirAll(f, p, mode) ==
    IF MkdirAllOk(f, p)
    THEN Overlay(f, [q \in {r \in Prefixes(p) : ~Exists(f, r)} |-> DirEntry(mode)])
    ELSE f

\* os.RemoveAll(p): p and everything below it; no error when p is absent
RemoveAll(f, p) == Without(f, Subtree(f, p))

\* filepath.Walk(root): root first, then each entry's subtree in name order
RECURSIVE WalkFrom(_, _)
RECURSIVE WalkNames(_, _, _)
WalkFrom(f, p) ==
    IF IsDir(f, p) THEN <<p>> \o WalkNames(f, p, ReadDir(f, p)) ELSE <<p>>

WalkNames(f, p, names) ==
    IF names = <<>> THEN <<>>
    ELSE WalkFrom(f, Join(p, <<Head(names)>>)) \o WalkNames(f, p, Tail(names))

-----------------------------------------------------------------------------
(* doublestar.Match on a slash-separated pattern and a relative path.      *)

\* the segments of a slash-separated pattern
RECURSIVE SplitSlash(_, _)
SplitSlash(s, acc) ==
    IF s = "" THEN <<acc>>
    ELSE IF Head(s) = "/" THEN <<acc>> \o SplitSlash(Tail(s), "")
    ELSE SplitSlash(Tail(s), acc \o Head(s))

\* one segment: * is any run of characters, ? any one character
RECURSIVE SegMatch(_, _)
SegMatch(pat, name) ==
    IF pat = "" THEN name = ""
    ELSE IF Head(pat) = "*"
         THEN SegMatch(Tail(pat), name) \/ (name # "" /\ SegMatch(pat, Tail(name)))
    ELSE IF Head(pat) = "?"
         THEN name # "" /\ SegMatch(Tail(pat), Tail(name))
    ELSE name # "" /\ Head(name) = Head(pat) /\ SegMatch(Tail(pat), Tail(name))

\* a ** segment is zero or more path segments
RECURSIVE SegsMatch(_, _)
SegsMatch(segs, path) ==
    IF segs = <<>> THEN path = <<>>
    ELSE IF Head(segs) = "**"
         THEN SegsMatch(Tail(segs), path) \/ (path # <<>> /\ SegsMatch(segs, Tail(path)))
    ELSE path # <<>> /\ SegMatch(Head(segs), Head(path)) /\ SegsMatch(Tail(segs), Tail(path))

\* does the string hold the character
HasChar(str, c) == \E i \in 1..Len(str) : SubSeq(str, i, i) = c

\* doublestar reports a pattern with an unclosed character class as bad
BadPattern(glob) == HasChar(glob, "[")

\* doublestar.Match: a malformed pattern is reported as (false, ErrBadPattern)
Match(pattern, path) == ~BadPattern(pattern) /\ SegsMatch(SplitSlash(pattern, ""), path)

-----------------------------------------------------------------------------
(* package copy_funcs                                                      *)

\* the include loop: stops at the first pattern that matches
RECURSIVE IncludeLoop(_, _)
IncludeLoop(path, includes) ==
    IF includes = <<>> THEN FALSE
    ELSE IF Match(Head(includes), path) THEN TRUE
    ELSE IncludeLoop(path, Tail(includes))

\* the exclude loop: TRUE when it returns false at a matching pattern
RECURSIVE ExcludeLoop(_, _)
ExcludeLoop(path, excludes) ==
    IF excludes = <<>> THEN FALSE
    ELSE IF Match(Head(excludes), path) THEN TRUE
    ELSE ExcludeLoop(path, Tail(excludes))

\* mutant: the exclude list is never consulted
shouldIncludeNoVeto(path, includes, excludes) ==
    Len(includes) = 0 \/ IncludeLoop(path, includes)

shouldInclude(path, includes, excludes) ==
    LET included == Len(includes) = 0 \/ IncludeLoop(path, includes)
    IN  IF ~included THEN FALSE
        ELSE IF ExcludeLoop(path, excludes) THEN FALSE
        ELSE TRUE

\* the inner walk of shouldIncludeDir: some file below dirPath is included
hasMatchingFiles(f, dirPath, absSource, includes, excludes) ==
    \E path \in Subtree(f, dirPath) \ {dirPath} :
        /\ ~IsDir(f, path)
        /\ shouldInclude(Rel(absSource, path), includes, excludes)

\* mutant: a matching directory is included whether or not it is empty
shouldIncludeDirAnyMatch(f, dirPath, absSource, includes, excludes) ==
    LET relPath == Rel(absSource, dirPath)
    IN  \/ relPath = <<>>
        \/ shouldInclude(relPath, includes, excludes)
        \/ hasMatchingFiles(f, dirPath, absSource, includes, excludes)

\* mutant: a directory is included for itself only, not for the files below it
shouldIncludeDirEmptyOnly(f, dirPath, absSource, includes, excludes) ==
    LET relPath == Rel(absSource, dirPath)
    IN  \/ relPath = <<>>
        \/ (Len(ReadDir(f, dirPath)) = 0 /\ shouldInclude(relPath, includes, excludes))

shouldIncludeDir(f, dirPath, absSource, includes, excludes) ==
    LET relPath == Rel(absSource, dirPath)
        dirShouldBeIncluded == shouldInclude(relPath, includes, excludes)
        isEmpty == Len(ReadDir(f, dirPath)) = 0
    IN  IF relPath = <<>> THEN TRUE
        ELSE (isEmpty /\ dirShouldBeIncluded)
                \/ hasMatchingFiles(f, dirPath, absSource, includes, excludes)

\* mutant: the source's mode is not given to the destination file
CopyFileNoChmod(f, srcPath, destPath) ==
    IF ~Exists(f, srcPath) THEN [fs |-> f, err |-> "open"]
    ELSE IF ~IsDir(f, Parent(destPath)) \/ IsDir(f, destPath)
         THEN [fs |-> f, err |-> "create"]
    ELSE [fs |-> Overlay(f, [q \in {destPath} |->
                    FileEntry(f[srcPath].data,
                              IF Exists(f, destPath) THEN f[destPath].mode ELSE 644)]),
          err |-> "nil"]

\* mutant: an existing destination file is appended to, not truncated
CopyFileAppend(f, srcPath, destPath) ==
    IF ~Exists(f, srcPath) THEN [fs |-> f, err |-> "open"]
    ELSE IF ~IsDir(f, Parent(destPath)) \/ IsDir(f, destPath)
         THEN [fs |-> f, err |-> "create"]
    ELSE [fs |-> Overlay(f, [q \in {destPath} |->
                    FileEntry((IF Exists(f, destPath) THEN f[destPath].data ELSE "")
                                  \o f[srcPath].data,
                              f[srcPath].mode)]),
          err |-> "nil"]

\* mutant: the destination file is created exclusively
CopyFileExclusive(f, srcPath, destPath) ==
    IF ~Exists(f, srcPath) THEN [fs |-> f, err |-> "open"]
    ELSE IF ~IsDir(f, Parent(destPath)) \/ Exists(f, destPath)
         THEN [fs |-> f, err |-> "create"]
    ELSE [fs |-> Overlay(f, [q \in {destPath} |-> FileEntry(f[srcPath].data, f[srcPath].mode)]),
          err |-> "nil"]

\* mutant: the source file is gone once it is copied
CopyFileMove(f, srcPath, destPath) ==
    IF ~Exists(f, srcPath) THEN [fs |-> f, err |-> "open"]
    ELSE IF ~IsDir(f, Parent(destPath)) \/ IsDir(f, destPath)
         THEN [fs |-> f, err |-> "create"]
    ELSE [fs |-> Without(Overlay(f, [q \in {destPath} |->
                                       FileEntry(f[srcPath].data, f[srcPath].mode)]),
                         {srcPath}),
          err |-> "nil"]

\* file_operations.CopyFile: the filesystem afterwards and the error
CopyFile(f, srcPath, destPath) ==
    IF ~Exists(f, srcPath) THEN [fs |-> f, err |-> "open"]
    ELSE IF ~IsDir(f, Parent(destPath)) \/ IsDir(f, destPath)
         THEN [fs |-> f, err |-> "create"]
    ELSE IF IsDir(f, srcPath)
         THEN [fs |-> Overlay(f, [q \in {destPath} |->
                         FileEntry("", IF Exists(f, destPath) THEN f[destPath].mode ELSE 644)]),
               err |-> "copy"]
    ELSE [fs |-> Overlay(f, [q \in {destPath} |-> FileEntry(f[srcPath].data, f[srcPath].mode)]),
          err |-> "nil"]

\* pass 1 of CopyFiles: the directories to create, destination path -> mode
FirstPass(f, absSource, absDest, includes, excludes) ==
    LET dirs == {path \in Subtree(f, absSource) :
                    /\ IsDir(f, path)
                    /\ shouldIncludeDir(f, path, absSource, includes, excludes)
                    /\ Rel(absSource, path) # <<>>}
    IN  [destDir \in {Join(absDest, Rel(absSource, path)) : path \in dirs} |->
            f[Join(absSource, Rel(absDest, destDir))].mode]

LogEntry(op, path, dry) == [op |-> op, path |-> path, dry |-> dry]

Outcome(f, e, l) == [fs |-> f, err |-> e, log |-> l]

\* mutant: directories are made for copied files only, never on their own
VisitDirNever(f, record, relPath, destFile, a) ==
    Outcome(f, "nil", <<>>)

\* pass 2 at a directory: it is created when pass 1 recorded it
VisitDir(f, record, relPath, destFile, a) ==
    IF destFile \in DOMAIN record
    THEN IF a.dryRun
         THEN Outcome(f, "nil", <<LogEntry("mkdir", relPath, TRUE)>>)
         ELSE IF MkdirAllOk(f, destFile)
              THEN Outcome(MkdirAll(f, destFile, record[destFile]), "nil",
                           <<LogEntry("mkdir", relPath, FALSE)>>)
              ELSE Outcome(f, "mkdir", <<LogEntry("mkdir", relPath, FALSE)>>)
    ELSE Outcome(f, "nil", <<>>)

\* mutant: every file is copied, the patterns are not asked
VisitFileNoFilter(f, record, path, relPath, destFile, a) ==
    LET parentDir == Parent(destFile)
        made == MkdirAll(f, parentDir, 755)
        copied == CopyFile(made, path, destFile)
    IN  IF a.dryRun
        THEN Outcome(f, "nil", <<LogEntry("copy", relPath, TRUE)>>)
        ELSE IF ~MkdirAllOk(f, parentDir)
             THEN Outcome(f, "mkdir", <<LogEntry("copy", relPath, FALSE)>>)
        ELSE Outcome(copied.fs, copied.err, <<LogEntry("copy", relPath, FALSE)>>)

\* pass 2 at a file: skipped, or copied below its recorded parent directory
VisitFile(f, record, path, relPath, destFile, a) ==
    LET parentDir == Parent(destFile)
        made == IF parentDir \in DOMAIN record
                THEN MkdirAll(f, parentDir, record[parentDir]) ELSE f
        copied == CopyFile(made, path, destFile)
    IN  IF ~shouldInclude(relPath, a.copyInclude, a.copyExclude)
        THEN Outcome(f, "nil", <<LogEntry("skip", relPath, FALSE)>>)
        ELSE IF a.dryRun
             THEN Outcome(f, "nil", <<LogEntry("copy", relPath, TRUE)>>)
        ELSE IF parentDir \in DOMAIN record /\ ~MkdirAllOk(f, parentDir)
             THEN Outcome(f, "mkdir", <<LogEntry("copy", relPath, FALSE)>>)
        ELSE Outcome(copied.fs, copied.err, <<LogEntry("copy", relPath, FALSE)>>)

\* what pass 2 does at one entry of the walk: filesystem, error, log entries
SecondPassVisit(f, record, path, a) ==
    LET relPath == Rel(a.sourcePath, path)
        destFile == Join(a.destPath, relPath)
    IN  IF relPath = <<>> THEN Outcome(f, "nil", <<>>)
        ELSE IF IsDir(f, path) THEN VisitDir(f, record, relPath, destFile, a)
        ELSE VisitFile(f, record, path, relPath, destFile, a)

NoRecord == [p \in {} |-> 0]

\* no GetConfirmation call is made on its own: nothing to read
NoInput == [lines |-> <<>>, rest |-> "", end |-> "EOF"]

\* no moveItem call is made on its own
NoMove == [sourcePath |-> <<>>, destPath |-> <<>>, xdev |-> FALSE]

\* the arguments of a CopyFiles call
CopyArgs(sourcePath, destPath, copyInclude, copyExclude, dryRun) ==
    [sourcePath |-> sourcePath, destPath |-> destPath, copyInclude |-> copyInclude,
     copyExclude |-> copyExclude, dryRun |-> dryRun]

\* CopyFiles is entered: pass 1 walks the source
CopyFilesPass1 ==
    /\ pc = "pass1"
    /\ IF ~Exists(fs, copyArgs.sourcePath)
       THEN /\ err' = "walk"
            /\ pc' = "copied"
            /\ returned' = Append(returned, "walk")
            /\ UNCHANGED <<dirsToCreate, walk>>
       ELSE /\ dirsToCreate' = FirstPass(fs, copyArgs.sourcePath, copyArgs.destPath,
                                         copyArgs.copyInclude, copyArgs.copyExclude)
            /\ walk' = WalkFrom(fs, copyArgs.sourcePath)
            /\ pc' = "pass2"
            /\ err' = "nil"
            /\ UNCHANGED returned
    /\ UNCHANGED <<fs, config, mi, fs0, copyArgs, log, runs, fsAtCall, explodeVars, mainVars, unitVars>>

\* pass 2 visits the next entry of the walk; an error ends the walk
CopyFilesVisit ==
    /\ pc = "pass2"
    /\ walk # <<>>
    /\ LET r == SecondPassVisit(fs, dirsToCreate, Head(walk), copyArgs)
       IN  /\ fs' = r.fs
           /\ log' = log \o r.log
           /\ err' = r.err
           /\ IF r.err = "nil"
              THEN /\ walk' = Tail(walk)
                   /\ pc' = "pass2"
                   /\ UNCHANGED returned
              ELSE /\ walk' = <<>>
                   /\ pc' = "copied"
                   /\ returned' = Append(returned, r.err)
    /\ UNCHANGED <<config, mi, fs0, copyArgs, dirsToCreate, runs, fsAtCall, explodeVars, mainVars, unitVars>>

\* the walk is over: CopyFiles returns nil
CopyFilesReturn ==
    /\ pc = "pass2"
    /\ walk = <<>>
    /\ pc' = "copied"
    /\ returned' = Append(returned, "nil")
    /\ UNCHANGED <<fs, config, mi, fs0, copyArgs, dirsToCreate, walk, err, log, runs, fsAtCall, explodeVars, mainVars, unitVars>>

-----------------------------------------------------------------------------
(* The mapping at hand and the order of the post-copy operations.          *)

\* processMapping's sourcePath and destPath
mappingSourcePath == Join(config.SourceDir, <<config.Mappings[mi].Source>>)

mappingDestPath == Join(config.TargetDir, <<config.Mappings[mi].Destination>>)

\* mutant: the renames come before the explosion
runPostCopyOperationsRenameFirst(c, k) ==
    IF k <= 1 /\ Len(c.Renames) > 0 THEN "processRenames"
    ELSE IF k <= 1 /\ Len(c.ExplodeDirs) > 0 THEN "explodeDirs"
    ELSE IF k <= 3 /\ Len(c.FileRewrites) > 0 THEN "processRewrites"
    ELSE "mapped"

\* runPostCopyOperations: the first configured operation at or after the
\* k-th (1 explode, 2 rename, 3 rewrite); "mapped" when none is left
runPostCopyOperations(c, k) ==
    IF k <= 1 /\ Len(c.ExplodeDirs) > 0 THEN "explodeDirs"
    ELSE IF k <= 2 /\ Len(c.Renames) > 0 THEN "processRenames"
    ELSE IF k <= 3 /\ Len(c.FileRewrites) > 0 THEN "processRewrites"
    ELSE "mapped"

-----------------------------------------------------------------------------
(* file_operations: ExplodeFolder, moveItem, copyDir.                      *)

\* the error of os.Stat(p)
StatErr(f, p) ==
    IF Exists(f, p) THEN "nil"
    ELSE IF \E q \in Prefixes(p) : IsFile(f, q) THEN "ENOTDIR"
    ELSE "ENOENT"

\* the subtree at oldpath re-rooted at newpath
Moved(f, oldpath, newpath) ==
    Overlay(Without(f, Subtree(f, oldpath) \cup Subtree(f, newpath)),
            [q \in {Join(newpath, Rel(oldpath, r)) : r \in Subtree(f, oldpath)} |->
                f[Join(oldpath, Rel(newpath, q))]])

\* os.Rename(oldpath, newpath); xdev: the two paths lie on different devices
Rename(f, oldpath, newpath, xdev) ==
    IF ~Exists(f, oldpath) \/ ~Exists(f, Parent(newpath))
    THEN [fs |-> f, err |-> "ENOENT"]
    ELSE IF ~IsDir(f, Parent(newpath)) THEN [fs |-> f, err |-> "ENOTDIR"]
    ELSE IF IsDir(f, newpath) THEN [fs |-> f, err |-> "EEXIST"]
    ELSE IF IsDir(f, oldpath) /\ IsFile(f, newpath) THEN [fs |-> f, err |-> "ENOTDIR"]
    ELSE IF oldpath # newpath /\ IsPrefix(oldpath, newpath) THEN [fs |-> f, err |-> "EINVAL"]
    ELSE IF xdev THEN [fs |-> f, err |-> "EXDEV"]
    ELSE [fs |-> Moved(f, oldpath, newpath), err |-> "nil"]

\* mutant: the directory is made, its entries are not copied
copyDirNoEntries(f, sourcePath, destPath) ==
    IF ~Exists(f, sourcePath) THEN [fs |-> f, err |-> "stat"]
    ELSE IF ~MkdirAllOk(f, destPath) THEN [fs |-> f, err |-> "mkdir"]
    ELSE [fs |-> MkdirAll(f, destPath, f[sourcePath].mode), err |-> "nil"]

\* file_operations.copyDir: the directory is made with the source's mode,
\* then its entries are copied in name order; the first error ends the copy
RECURSIVE copyDir(_, _, _)
RECURSIVE copyEntries(_, _, _, _)
copyDir(f, sourcePath, destPath) ==
    IF ~Exists(f, sourcePath) THEN [fs |-> f, err |-> "stat"]
    ELSE IF ~MkdirAllOk(f, destPath) THEN [fs |-> f, err |-> "mkdir"]
    ELSE IF ~IsDir(f, sourcePath)
         THEN [fs |-> MkdirAll(f, destPath, f[sourcePath].mode), err |-> "readdir"]
    ELSE copyEntries(MkdirAll(f, destPath, f[sourcePath].mode), sourcePath, destPath,
                     ReadDir(f, sourcePath))

copyEntries(f, sourcePath, destPath, names) ==
    IF names = <<>> THEN [fs |-> f, err |-> "nil"]
    ELSE LET srcPath == Join(sourcePath, <<Head(names)>>)
             dstPath == Join(destPath, <<Head(names)>>)
             r == IF IsDir(f, srcPath) THEN copyDir(f, srcPath, dstPath)
                  ELSE CopyFile(f, srcPath, dstPath)
         IN  IF r.err # "nil" THEN r
             ELSE copyEntries(r.fs, sourcePath, destPath, Tail(names))

\* file_operations.moveItem: rename, else copy and remove the source
moveItem(f, sourcePath, destPath, xdev) ==
    LET renamed == Rename(f, sourcePath, destPath, xdev)
        copied == IF IsDir(f, sourcePath) THEN copyDir(f, sourcePath, destPath)
                  ELSE CopyFile(f, sourcePath, destPath)
    IN  IF renamed.err = "nil" THEN renamed
        ELSE IF ~Exists(f, sourcePath) THEN [fs |-> f, err |-> "stat"]
        ELSE IF copied.err # "nil" THEN copied
        ELSE [fs |-> RemoveAll(copied.fs, sourcePath), err |-> "nil"]

\* mutant: the exploded folder itself is no conflict for a child of its name
ExplodeItemSelfOk(f, destPath, folderPath, name, xdev) ==
    LET moved == moveItem(f, Join(folderPath, <<name>>), Join(destPath, <<name>>), xdev)
    IN  IF StatErr(f, Join(destPath, <<name>>)) = "nil" /\ Join(destPath, <<name>>) # folderPath
        THEN Outcome(f, "conflict", <<>>)
        ELSE IF moved.err # "nil" THEN Outcome(moved.fs, "move", <<>>)
        ELSE Outcome(moved.fs, "nil", <<LogEntry("moved", <<name>>, FALSE)>>)

\* mutant: the child is moved without a look at the destination
ExplodeItemNoCheck(f, destPath, folderPath, name, xdev) ==
    LET moved == moveItem(f, Join(folderPath, <<name>>), Join(destPath, <<name>>), xdev)
    IN  IF moved.err # "nil" THEN Outcome(moved.fs, "move", <<>>)
        ELSE Outcome(moved.fs, "nil", <<LogEntry("moved", <<name>>, FALSE)>>)

\* ExplodeFolder's loop body for the child name
ExplodeItem(f, destPath, folderPath, name, xdev) ==
    LET moved == moveItem(f, Join(folderPath, <<name>>), Join(destPath, <<name>>), xdev)
    IN  IF StatErr(f, Join(destPath, <<name>>)) = "nil" THEN Outcome(f, "conflict", <<>>)
        ELSE IF moved.err # "nil" THEN Outcome(moved.fs, "move", <<>>)
        ELSE Outcome(moved.fs, "nil", <<LogEntry("moved", <<name>>, FALSE)>>)

\* the folder ExplodeFolder is called on
explodeDir == config.ExplodeDirs[ei]

folderPath == Join(mappingDestPath, <<explodeDir>>)

\* explodeDirs: the next directory name; a dry run only logs it
explodeDirsNext ==
    /\ pc = "explodeDirs"
    /\ IF ei > Len(config.ExplodeDirs)
       THEN /\ pc' = runPostCopyOperations(config, 2)
            /\ UNCHANGED <<ei, log, fsAtCall>>
       ELSE IF config.DryRun
            THEN /\ log' = Append(log, LogEntry("explode", <<explodeDir>>, TRUE))
                 /\ ei' = ei + 1
                 /\ UNCHANGED <<pc, fsAtCall>>
            ELSE /\ pc' = "explode"
                 /\ log' = <<>>
                 /\ fsAtCall' = fs
                 /\ UNCHANGED ei
    /\ err' = "nil"
    /\ UNCHANGED <<fs, config, mi, returned, fs0, copyVars, items, found, mainVars, unitVars>>

\* mutant: the folder is listed and emptied without a look at what it is
ExplodeFolderEnterNoDirCheck ==
    /\ pc = "explode"
    /\ IF StatErr(fs, folderPath) # "nil"
       THEN /\ found' = FALSE
            /\ err' = "nil"
            /\ pc' = "exploded"
            /\ UNCHANGED items
       ELSE /\ items' = ReadDir(fs, folderPath)
            /\ found' = TRUE
            /\ err' = "nil"
            /\ pc' = "moving"
    /\ UNCHANGED <<fs, config, mi, log, returned, fsAtCall, fs0, copyVars, ei, mainVars, unitVars>>

\* mutant: every child is checked for a conflict before the first is moved
ExplodeFolderEnterCheckAll ==
    /\ pc = "explode"
    /\ IF StatErr(fs, folderPath) # "nil"
       THEN /\ found' = FALSE
            /\ err' = (IF StatErr(fs, folderPath) = "ENOENT" THEN "nil" ELSE "access")
            /\ pc' = "exploded"
            /\ UNCHANGED items
       ELSE IF ~IsDir(fs, folderPath)
            THEN /\ found' = TRUE
                 /\ err' = "notdir"
                 /\ pc' = "exploded"
                 /\ UNCHANGED items
       ELSE /\ found' = TRUE
            /\ IF \E c \in ChildNames(fs, folderPath) : Exists(fs, Join(mappingDestPath, <<c>>))
               THEN /\ items' = SelectSeq(ReadDir(fs, folderPath),
                                          LAMBDA c : Exists(fs, Join(mappingDestPath, <<c>>)))
                    /\ err' = "conflict"
                    /\ pc' = "exploded"
               ELSE /\ items' = ReadDir(fs, folderPath)
                    /\ err' = "nil"
                    /\ pc' = "moving"
    /\ UNCHANGED <<fs, config, mi, log, returned, fsAtCall, fs0, copyVars, ei, mainVars, unitVars>>

\* ExplodeFolder is entered: the folder is looked up and listed
ExplodeFolderEnter ==
    /\ pc = "explode"
    /\ IF StatErr(fs, folderPath) = "ENOENT"
       THEN /\ found' = FALSE
            /\ err' = "nil"
            /\ log' = Append(log, LogEntry("skip", <<explodeDir>>, FALSE))
            /\ pc' = "exploded"
            /\ UNCHANGED items
       ELSE IF StatErr(fs, folderPath) # "nil"
            THEN /\ found' = FALSE
                 /\ err' = "access"
                 /\ pc' = "exploded"
                 /\ UNCHANGED <<items, log>>
       ELSE IF ~IsDir(fs, folderPath)
            THEN /\ found' = TRUE
                 /\ err' = "notdir"
                 /\ pc' = "exploded"
                 /\ UNCHANGED <<items, log>>
       ELSE /\ items' = ReadDir(fs, folderPath)
            /\ found' = TRUE
            /\ err' = "nil"
            /\ pc' = "moving"
            /\ UNCHANGED log
    /\ UNCHANGED <<fs, config, mi, returned, fsAtCall, fs0, copyVars, ei, mainVars, unitVars>>

\* ExplodeFolder moves the next child up one level; an error ends the call
ExplodeFolderMove ==
    /\ pc = "moving"
    /\ items # <<>>
    /\ \E xdev \in BOOLEAN :
         LET r == ExplodeItem(fs, mappingDestPath, folderPath, Head(items), xdev)
         IN  /\ fs' = r.fs
             /\ log' = log \o r.log
             /\ err' = r.err
             /\ IF r.err = "nil"
                THEN /\ items' = Tail(items)
                     /\ UNCHANGED pc
                ELSE /\ pc' = "exploded"
                     /\ UNCHANGED items
    /\ UNCHANGED <<config, mi, returned, fsAtCall, fs0, copyVars, ei, found, mainVars, unitVars>>

\* every child is moved: os.Remove takes the folder away when it is empty
ExplodeFolderRemove ==
    /\ pc = "moving"
    /\ items = <<>>
    /\ IF ChildNames(fs, folderPath) = {}
       THEN /\ fs' = Without(fs, {folderPath})
            /\ err' = "nil"
       ELSE /\ err' = "remove"
            /\ UNCHANGED fs
    /\ pc' = "exploded"
    /\ UNCHANGED <<config, mi, log, returned, fsAtCall, fs0, copyVars, explodeVars, mainVars, unitVars>>

\* mutant: a folder that was not found ends the program
explodeDirsResultFatal ==
    /\ pc = "exploded"
    /\ IF ~found \/ err # "nil"
       THEN /\ pc' = "exit1"
            /\ UNCHANGED <<ei, log>>
       ELSE /\ pc' = "explodeDirs"
            /\ ei' = ei + 1
            /\ log' = Append(log, LogEntry("explode", <<explodeDir>>, FALSE))
    /\ UNCHANGED <<fs, config, mi, err, returned, fsAtCall, fs0, copyVars, items, found, mainVars, unitVars>>

\* explodeDirs takes ExplodeFolder's result: not found continues, an error
\* is returned, which ends the program
explodeDirsResult ==
    /\ pc = "exploded"
    /\ IF ~found
       THEN /\ pc' = "explodeDirs"
            /\ ei' = ei + 1
            /\ UNCHANGED log
       ELSE IF err # "nil"
            THEN /\ pc' = "exit1"
                 /\ UNCHANGED <<ei, log>>
       ELSE /\ pc' = "explodeDirs"
            /\ ei' = ei + 1
            /\ log' = Append(log, LogEntry("explode", <<explodeDir>>, FALSE))
    /\ UNCHANGED <<fs, config, mi, err, returned, fsAtCall, fs0, copyVars, items, found, mainVars, unitVars>>

-----------------------------------------------------------------------------
(* file_operations: ClearDirectory and SearchAndReplace.                   *)

\* file_operations.ClearDirectory: every entry of the directory is removed
RECURSIVE ClearEntries(_, _, _)
ClearEntries(f, dirPath, names) ==
    IF names = <<>> THEN f
    ELSE ClearEntries(RemoveAll(f, Join(dirPath, <<Head(names)>>)), dirPath, Tail(names))

\* mutant: only the files are removed, the directories stay
ClearDirectoryFilesOnly(f, dirPath) ==
    IF ~IsDir(f, dirPath) THEN [fs |-> f, err |-> "readdir"]
    ELSE [fs |-> Without(f, {p \in Subtree(f, dirPath) : IsFile(f, p)}), err |-> "nil"]

ClearDirectory(f, dirPath) ==
    IF ~IsDir(f, dirPath) THEN [fs |-> f, err |-> "readdir"]
    ELSE [fs |-> ClearEntries(f, dirPath, ReadDir(f, dirPath)), err |-> "nil"]

\* doublestar.FilepathGlob(path/glob): the entries at or below path, files
\* and directories alike, whose relative path matches the glob
FilepathGlob(f, path, glob) ==
    IF ~Exists(f, path) THEN {}
    ELSE {q \in Subtree(f, path) : Match(glob, Rel(path, q))}

\* regexp.Compile; the patterns of the model are literal characters, the dot
\* and the opening parenthesis, which nothing closes
RegexCompiles(pattern) == ~HasChar(pattern, "(")

\* the search term matches at the head of the content; in a regular
\* expression the dot stands for any one character
MatchesAtHead(content, searchTerm, isRegex) ==
    /\ Len(content) >= Len(searchTerm)
    /\ \A i \in 1..Len(searchTerm) :
          \/ SubSeq(searchTerm, i, i) = SubSeq(content, i, i)
          \/ (isRegex /\ SubSeq(searchTerm, i, i) = ".")

\* mutant: only the first match is replaced
RECURSIVE ReplaceFirst(_, _, _, _)
ReplaceFirst(content, searchTerm, replaceTerm, isRegex) ==
    IF content = "" THEN (IF searchTerm = "" THEN replaceTerm ELSE "")
    ELSE IF MatchesAtHead(content, searchTerm, isRegex)
         THEN replaceTerm \o SubSeq(content, Len(searchTerm) + 1, Len(content))
    ELSE SubSeq(content, 1, 1) \o ReplaceFirst(Tail(content), searchTerm, replaceTerm, isRegex)

\* strings.ReplaceAll and Regexp.ReplaceAll: every non-overlapping match,
\* leftmost first, is replaced; an empty search term matches before every
\* character and at the end
RECURSIVE ReplaceAll(_, _, _, _)
ReplaceAll(content, searchTerm, replaceTerm, isRegex) ==
    IF content = "" THEN (IF searchTerm = "" THEN replaceTerm ELSE "")
    ELSE IF searchTerm = ""
         THEN replaceTerm \o SubSeq(content, 1, 1)
                  \o ReplaceAll(Tail(content), searchTerm, replaceTerm, isRegex)
    ELSE IF MatchesAtHead(content, searchTerm, isRegex)
         THEN replaceTerm \o ReplaceAll(SubSeq(content, Len(searchTerm) + 1, Len(content)),
                                        searchTerm, replaceTerm, isRegex)
    ELSE SubSeq(content, 1, 1) \o ReplaceAll(Tail(content), searchTerm, replaceTerm, isRegex)

\* mutant: the file is written back as it was read
RewriteFileAsRead(f, file, rule, isRegex) ==
    IF ~IsFile(f, file) THEN Outcome(f, "read", <<>>)
    ELSE Outcome(f, "nil", <<LogEntry("rewrite", file, FALSE)>>)

\* SearchAndReplace's loop body for one matched path: a directory cannot be
\* read; a file is written back with its mode kept
RewriteFile(f, file, rule, isRegex) ==
    IF ~IsFile(f, file) THEN Outcome(f, "read", <<>>)
    ELSE Outcome([f EXCEPT ![file].data =
                      ReplaceAll(f[file].data, rule.SearchPattern, rule.ReplacePattern, isRegex)],
                 "nil", <<LogEntry("rewrite", file, FALSE)>>)

-----------------------------------------------------------------------------
(* main: ParseAndValidate, the confirmation, the mappings in order.        *)

\* mutant: a malformed glob is a configuration error
ValidConfigGlobs(f, c) ==
    /\ IsDir(f, c.SourceDir)
    /\ \A i \in 1..Len(c.Mappings) : IsDir(f, Join(c.SourceDir, <<c.Mappings[i].Source>>))
    /\ c.RewritesAreRegex =>
          \A i \in 1..Len(c.FileRewrites) : RegexCompiles(c.FileRewrites[i].SearchPattern)
    /\ Len(c.Mappings) > 0
    /\ \A i \in 1..Len(c.CopyInclude) : ~BadPattern(c.CopyInclude[i])
    /\ \A i \in 1..Len(c.CopyExclude) : ~BadPattern(c.CopyExclude[i])
    /\ \A i \in 1..Len(c.FileRewrites) : ~BadPattern(c.FileRewrites[i].FileGlob)

\* mutant: only the first mapping and the first rewrite rule are looked at
ValidConfigFirstOnly(f, c) ==
    /\ IsDir(f, c.SourceDir)
    /\ Len(c.Mappings) > 0
    /\ IsDir(f, Join(c.SourceDir, <<c.Mappings[1].Source>>))
    /\ (c.RewritesAreRegex /\ Len(c.FileRewrites) > 0) =>
          RegexCompiles(c.FileRewrites[1].SearchPattern)

\* cli_parsing.ParseAndValidate: the source directory and every mapping's
\* source folder exist, every search pattern compiles when the rewrites are
\* regular expressions, there is a mapping
ValidConfig(f, c) ==
    /\ IsDir(f, c.SourceDir)
    /\ \A i \in 1..Len(c.Mappings) : IsDir(f, Join(c.SourceDir, <<c.Mappings[i].Source>>))
    /\ c.RewritesAreRegex =>
          \A i \in 1..Len(c.FileRewrites) : RegexCompiles(c.FileRewrites[i].SearchPattern)
    /\ Len(c.Mappings) > 0

ParseAndValidate ==
    /\ pc = "main"
    /\ IF ValidConfig(fs, config)
       THEN pc' = "summarizeWarnConfirm" /\ err' = "nil"
       ELSE pc' = "exit1" /\ err' = "config"
    /\ UNCHANGED <<fs, config, mi, log, returned, fsAtCall, fs0, copyVars, explodeVars, mainVars, unitVars>>

\* mutant: the prompt is shown only when the target is to be cleaned
summarizeWarnConfirmCleanOnly ==
    /\ pc = "summarizeWarnConfirm"
    /\ IF ~config.SkipConfirm /\ ~config.DryRun /\ config.CleanTarget
       THEN /\ prompted' = TRUE
            /\ \E yes \in BOOLEAN : pc' = IF yes THEN "mapping" ELSE "exit1"
       ELSE /\ pc' = "mapping"
            /\ UNCHANGED prompted
    /\ UNCHANGED <<fs, config, mi, err, log, returned, fsAtCall, fs0, copyVars, explodeVars,
                   ri, wi, matches, loopback, unitVars>>

\* summarizeWarnConfirm: the prompt is shown unless skip-confirm or dry-run is
\* set; the answer no ends the program
summarizeWarnConfirm ==
    /\ pc = "summarizeWarnConfirm"
    /\ IF ~config.SkipConfirm /\ ~config.DryRun
       THEN /\ prompted' = TRUE
            /\ \E yes \in BOOLEAN : pc' = IF yes THEN "mapping" ELSE "exit1"
       ELSE /\ pc' = "mapping"
            /\ UNCHANGED prompted
    /\ UNCHANGED <<fs, config, mi, err, log, returned, fsAtCall, fs0, copyVars, explodeVars,
                   ri, wi, matches, loopback, unitVars>>

\* main's loop: the next mapping is processed, or the program ends
mainNextMapping ==
    /\ pc = "mapping"
    /\ pc' = IF mi > Len(config.Mappings) THEN "exit0"
             ELSE IF config.CleanTarget THEN "cleanTargetDir"
             ELSE "CopyFiles"
    /\ UNCHANGED <<fs, config, mi, err, log, returned, fsAtCall, fs0, copyVars, explodeVars,
                   mainVars, unitVars>>

\* mutant: the target is cleaned in a dry run too
cleanTargetDirAlways(f, c, destPath) ==
    LET cleared == ClearDirectory(f, destPath)
    IN  Outcome(cleared.fs, cleared.err, <<LogEntry("clean", destPath, FALSE)>>)

\* cleanTargetDir: a dry run only logs
cleanTargetDir(f, c, destPath) ==
    LET cleared == ClearDirectory(f, destPath)
    IN  IF c.DryRun THEN Outcome(f, "nil", <<LogEntry("clean", destPath, TRUE)>>)
        ELSE Outcome(cleared.fs, cleared.err, <<LogEntry("clean", destPath, FALSE)>>)

\* processMapping cleans the target when asked to; an error ends the program
processMappingClean ==
    /\ pc = "cleanTargetDir"
    /\ LET r == cleanTargetDir(fs, config, mappingDestPath)
       IN  /\ fs' = r.fs
           /\ err' = r.err
           /\ log' = r.log
           /\ pc' = IF r.err = "nil" THEN "CopyFiles" ELSE "exit1"
    /\ fsAtCall' = fs
    /\ UNCHANGED <<config, mi, returned, fs0, copyVars, explodeVars, mainVars, unitVars>>

\* processMapping calls CopyFiles with the configured patterns
processMappingCopy ==
    /\ pc = "CopyFiles"
    /\ copyArgs' = CopyArgs(mappingSourcePath, mappingDestPath, config.CopyInclude,
                            config.CopyExclude, config.DryRun)
    /\ pc' = "pass1"
    /\ loopback' = FALSE
    /\ fsAtCall' = fs
    /\ log' = <<>>
    /\ err' = "nil"
    /\ dirsToCreate' = NoRecord
    /\ walk' = <<>>
    /\ runs' = runs + 1
    /\ UNCHANGED <<fs, config, mi, returned, fs0, explodeVars, ri, wi, matches, prompted, unitVars>>

\* the relative paths CopyFiles logged as copied, in order
CopiedPaths(l) ==
    LET copies == SelectSeq(l, LAMBDA e : e.op = "copy")
    IN  [i \in 1..Len(copies) |-> copies[i].path]

\* the list CopyFiles returns: the relative paths copied; whether a dry run
\* lists the files it would have copied is left open
FilesCopied(l, dryRun) ==
    IF dryRun THEN {<<>>, CopiedPaths(l)} ELSE {CopiedPaths(l)}

\* a pattern for each copied file that matches its name at any depth
GlobifyFilenameOfPathList(paths) ==
    [i \in 1..Len(paths) |-> "**/" \o Base(paths[i])]

\* mutant: the loopback copy keeps the exclude list
processMappingCopiedKeepExcludes ==
    /\ pc = "copied"
    /\ IF err # "nil"
       THEN /\ pc' = "exit1"
            /\ UNCHANGED <<copyVars, ei, ri, wi, loopback, log, fsAtCall>>
       ELSE \E filesCopied \in FilesCopied(log, config.DryRun) :
              IF ~loopback /\ config.LoopbackCopy /\ Len(filesCopied) > 0
              THEN /\ copyArgs' = CopyArgs(mappingSourcePath, mappingDestPath,
                                           GlobifyFilenameOfPathList(filesCopied), config.CopyExclude,
                                           config.DryRun)
                   /\ pc' = "pass1"
                   /\ loopback' = TRUE
                   /\ fsAtCall' = fs
                   /\ log' = <<>>
                   /\ dirsToCreate' = NoRecord
                   /\ walk' = <<>>
                   /\ runs' = runs + 1
                   /\ UNCHANGED <<ei, ri, wi>>
              ELSE /\ pc' = runPostCopyOperations(config, 1)
                   /\ ei' = 1
                   /\ ri' = 1
                   /\ wi' = 1
                   /\ UNCHANGED <<copyVars, loopback, log, fsAtCall>>
    /\ UNCHANGED <<fs, config, mi, err, returned, fs0, items, found, matches, prompted, unitVars>>

\* CopyFiles has returned to processMapping: an error ends the program, the
\* loopback copy follows the first copy when it is enabled and files were
\* copied, then come the post-copy operations
processMappingCopied ==
    /\ pc = "copied"
    /\ IF err # "nil"
       THEN /\ pc' = "exit1"
            /\ UNCHANGED <<copyVars, ei, ri, wi, loopback, log, fsAtCall>>
       ELSE \E filesCopied \in FilesCopied(log, config.DryRun) :
              IF ~loopback /\ config.LoopbackCopy /\ Len(filesCopied) > 0
              THEN /\ copyArgs' = CopyArgs(mappingSourcePath, mappingDestPath,
                                           GlobifyFilenameOfPathList(filesCopied), <<>>,
                                           config.DryRun)
                   /\ pc' = "pass1"
                   /\ loopback' = TRUE
                   /\ fsAtCall' = fs
                   /\ log' = <<>>
                   /\ dirsToCreate' = NoRecord
                   /\ walk' = <<>>
                   /\ runs' = runs + 1
                   /\ UNCHANGED <<ei, ri, wi>>
              ELSE /\ pc' = runPostCopyOperations(config, 1)
                   /\ ei' = 1
                   /\ ri' = 1
                   /\ wi' = 1
                   /\ UNCHANGED <<copyVars, loopback, log, fsAtCall>>
    /\ UNCHANGED <<fs, config, mi, err, returned, fs0, items, found, matches, prompted, unitVars>>

\* mutant: every entry of the old name below the destination folder is renamed
processRenamesAnyDepth ==
    /\ pc = "processRenames"
    /\ IF ri > Len(config.Renames)
       THEN /\ pc' = runPostCopyOperations(config, 3)
            /\ UNCHANGED <<fs, ri, log>>
       ELSE LET r == config.Renames[ri]
                Renamed(p, root, oldName, newName) ==
                    [i \in 1..Len(p) |->
                        IF i > Len(root) /\ p[i] = oldName THEN newName ELSE p[i]]
                everywhere ==
                    [q \in {Renamed(p, mappingDestPath, r.OldName, r.NewName) :
                               p \in DOMAIN fs} |->
                        fs[CHOOSE p \in DOMAIN fs :
                              Renamed(p, mappingDestPath, r.OldName, r.NewName) = q]]
            IN  /\ fs' = (IF config.DryRun THEN fs ELSE everywhere)
                    /\ log' = Append(log, LogEntry("rename", <<r.OldName>>, config.DryRun))
                    /\ ri' = ri + 1
                    /\ UNCHANGED pc
    /\ err' = "nil"
    /\ UNCHANGED <<config, mi, returned, fsAtCall, fs0, copyVars, explodeVars,
                   wi, matches, loopback, prompted, unitVars>>

\* processRenames: the next pair; the entry of the old name directly under
\* the destination folder is renamed, an absent one is skipped
processRenames ==
    /\ pc = "processRenames"
    /\ IF ri > Len(config.Renames)
       THEN /\ pc' = runPostCopyOperations(config, 3)
            /\ err' = "nil"
            /\ UNCHANGED <<fs, ri, log>>
       ELSE LET r == config.Renames[ri]
                oldPath == Join(mappingDestPath, <<r.OldName>>)
                newPath == Join(mappingDestPath, <<r.NewName>>)
                renamed == Rename(fs, oldPath, newPath, FALSE)
            IN  IF config.DryRun
                THEN /\ log' = Append(log, LogEntry("rename", <<r.OldName>>, TRUE))
                     /\ ri' = ri + 1
                     /\ UNCHANGED <<fs, pc, err>>
                ELSE IF StatErr(fs, oldPath) = "ENOENT"
                     THEN /\ log' = Append(log, LogEntry("skip", <<r.OldName>>, FALSE))
                          /\ ri' = ri + 1
                          /\ UNCHANGED <<fs, pc, err>>
                ELSE IF StatErr(fs, oldPath) # "nil"
                     THEN /\ err' = "stat"
                          /\ pc' = "exit1"
                          /\ UNCHANGED <<fs, ri, log>>
                ELSE IF renamed.err # "nil"
                     THEN /\ err' = "rename"
                          /\ pc' = "exit1"
                          /\ UNCHANGED <<fs, ri, log>>
                ELSE /\ fs' = renamed.fs
                     /\ log' = Append(log, LogEntry("rename", <<r.OldName>>, FALSE))
                     /\ ri' = ri + 1
                     /\ UNCHANGED <<pc, err>>
    /\ UNCHANGED <<config, mi, returned, fsAtCall, fs0, copyVars, explodeVars,
                   wi, matches, loopback, prompted, unitVars>>

\* processRewrites: the next rule; a dry run only logs it
processRewritesNext ==
    /\ pc = "processRewrites"
    /\ IF wi > Len(config.FileRewrites)
       THEN /\ pc' = "mapped"
            /\ UNCHANGED <<wi, log, fsAtCall>>
       ELSE IF config.DryRun
            THEN /\ log' = Append(log, LogEntry("rewrite", <<config.FileRewrites[wi].FileGlob>>, TRUE))
                 /\ wi' = wi + 1
                 /\ UNCHANGED <<pc, fsAtCall>>
            ELSE /\ pc' = "SearchAndReplace"
                 /\ log' = <<>>
                 /\ fsAtCall' = fs
                 /\ UNCHANGED wi
    /\ err' = "nil"
    /\ UNCHANGED <<fs, config, mi, returned, fs0, copyVars, explodeVars,
                   ri, matches, loopback, prompted, unitVars>>

\* mutant: the search pattern is not compiled before the files are rewritten
SearchAndReplaceEnterNoCompile ==
    /\ pc = "SearchAndReplace"
    /\ LET rule == config.FileRewrites[wi]
           globbed == FilepathGlob(fs, mappingDestPath, rule.FileGlob)
       IN  IF BadPattern(rule.FileGlob) \/ globbed = {}
           THEN /\ found' = FALSE
                /\ err' = (IF BadPattern(rule.FileGlob) THEN "glob" ELSE "nil")
                /\ pc' = "rewritten"
                /\ UNCHANGED matches
           ELSE /\ found' = TRUE
                /\ err' = "nil"
                /\ matches' = globbed
                /\ pc' = "rewriting"
    /\ UNCHANGED <<fs, config, mi, log, returned, fsAtCall, fs0, copyVars, ei, items,
                   ri, wi, loopback, prompted, unitVars>>

\* SearchAndReplace is entered: the glob is expanded, the pattern compiled
SearchAndReplaceEnter ==
    /\ pc = "SearchAndReplace"
    /\ LET rule == config.FileRewrites[wi]
           globbed == FilepathGlob(fs, mappingDestPath, rule.FileGlob)
       IN  IF BadPattern(rule.FileGlob)
           THEN /\ found' = FALSE
                /\ err' = "glob"
                /\ pc' = "rewritten"
                /\ UNCHANGED matches
           ELSE IF globbed = {}
                THEN /\ found' = FALSE
                     /\ err' = "nil"
                     /\ pc' = "rewritten"
                     /\ UNCHANGED matches
           ELSE IF config.RewritesAreRegex /\ ~RegexCompiles(rule.SearchPattern)
                THEN /\ found' = TRUE
                     /\ err' = "regex"
                     /\ pc' = "rewritten"
                     /\ UNCHANGED matches
           ELSE /\ found' = TRUE
                /\ err' = "nil"
                /\ matches' = globbed
                /\ pc' = "rewriting"
    /\ UNCHANGED <<fs, config, mi, log, returned, fsAtCall, fs0, copyVars, ei, items,
                   ri, wi, loopback, prompted, unitVars>>

\* mutant: an error puts the files rewritten so far back as they were
SearchAndReplaceFileRollback ==
    /\ pc = "rewriting"
    /\ \E file \in matches :
         LET r == RewriteFile(fs, file, config.FileRewrites[wi], config.RewritesAreRegex)
         IN  /\ fs' = (IF r.err = "nil" THEN r.fs ELSE fsAtCall)
             /\ err' = r.err
             /\ log' = log \o r.log
             /\ IF r.err = "nil"
                THEN /\ matches' = matches \ {file}
                     /\ UNCHANGED pc
                ELSE /\ pc' = "rewritten"
                     /\ UNCHANGED matches
    /\ UNCHANGED <<config, mi, returned, fsAtCall, fs0, copyVars, explodeVars,
                   ri, wi, loopback, prompted, unitVars>>

\* SearchAndReplace rewrites the next matched path; an error ends the call
SearchAndReplaceFile ==
    /\ pc = "rewriting"
    /\ \E file \in matches :
         LET r == RewriteFile(fs, file, config.FileRewrites[wi], config.RewritesAreRegex)
         IN  /\ fs' = r.fs
             /\ err' = r.err
             /\ log' = log \o r.log
             /\ IF r.err = "nil"
                THEN /\ matches' = matches \ {file}
                     /\ UNCHANGED pc
                ELSE /\ pc' = "rewritten"
                     /\ UNCHANGED matches
    /\ UNCHANGED <<config, mi, returned, fsAtCall, fs0, copyVars, explodeVars,
                   ri, wi, loopback, prompted, unitVars>>

\* every matched path is rewritten: SearchAndReplace returns (true, nil)
SearchAndReplaceReturn ==
    /\ pc = "rewriting"
    /\ matches = {}
    /\ pc' = "rewritten"
    /\ UNCHANGED <<fs, config, mi, err, log, returned, fsAtCall, fs0, copyVars, explodeVars,
                   mainVars, unitVars>>

\* processRewrites takes SearchAndReplace's result: not found continues, an
\* error is returned, which ends the program
processRewritesResult ==
    /\ pc = "rewritten"
    /\ IF ~found
       THEN /\ pc' = "processRewrites"
            /\ wi' = wi + 1
            /\ log' = Append(log, LogEntry("skip", <<config.FileRewrites[wi].FileGlob>>, FALSE))
       ELSE IF err # "nil"
            THEN /\ pc' = "exit1"
                 /\ UNCHANGED <<wi, log>>
       ELSE /\ pc' = "processRewrites"
            /\ wi' = wi + 1
            /\ UNCHANGED log
    /\ UNCHANGED <<fs, config, mi, err, returned, fsAtCall, fs0, copyVars, explodeVars,
                   ri, matches, loopback, prompted, unitVars>>

\* processMapping has come to its end: main goes on to the next mapping
processMappingDone ==
    /\ pc = "mapped"
    /\ mi' = mi + 1
    /\ pc' = "mapping"
    /\ UNCHANGED <<fs, config, err, log, returned, fsAtCall, fs0, copyVars, explodeVars,
                   mainVars, unitVars>>

-----------------------------------------------------------------------------
(* The trees the calls are run on.                                         *)

MaxSrcEntries == 3

MaxRuns == 2

SourceDir == <<"S">>

TargetDir == <<"T">>

Node(rel, entry) == [rel |-> rel, entry |-> entry]

\* entries a mapping's source folder may hold
SrcCandidates ==
    { Node(<<"a.t">>, FileEntry("A", 644)),
      Node(<<"sub">>, DirEntry(755)),
      Node(<<"sub", "a.t">>, FileEntry("B", 644)),
      Node(<<"sub", "b.j">>, FileEntry("C", 444)),
      Node(<<"sub", "emp">>, DirEntry(755)),
      Node(<<"emp">>, DirEntry(755)),
      Node(<<"nest">>, DirEntry(700)),
      Node(<<"nest", "emp">>, DirEntry(755)) }

ParentClosed(S) ==
    \A n \in S : Len(n.rel) > 1 => \E m \in S : m.rel = Parent(n.rel) /\ m.entry.kind = "dir"

SourceTrees == {S \in SUBSET SrcCandidates : Cardinality(S) <= MaxSrcEntries /\ ParentClosed(S)}

\* what the destination folder may hold before the run; no tree at all when
\* the folder does not exist
DestTrees ==
    { {},
      { Node(<<>>, DirEntry(755)) },
      { Node(<<>>, DirEntry(755)), Node(<<"a.t">>, FileEntry("old", 600)),
        Node(<<"z.t">>, FileEntry("Z", 644)) },
      { Node(<<>>, DirEntry(755)), Node(<<"sub">>, DirEntry(711)),
        Node(<<"sub", "b.j">>, FileEntry("old", 644)), Node(<<"sub", "z.j">>, FileEntry("Z", 644)) },
      { Node(<<>>, DirEntry(755)), Node(<<"a.t">>, DirEntry(755)) },
      { Node(<<>>, DirEntry(755)), Node(<<"sub">>, FileEntry("old", 644)) } }

IncludeChoices ==
    { <<>>, <<"**/*.t">>, <<"*.t">>, <<"nest">>, <<"sub/**", "**/emp">> }

ExcludeChoices ==
    { <<>>, <<"sub/**">>, <<"**/a.*">> }

\* the tree S planted at root
Plant(root, S) == [p \in {Join(root, n.rel) : n \in S} |->
                     (CHOOSE n \in S : Join(root, n.rel) = p).entry]

BaseFs == [p \in {SourceDir, TargetDir} |-> DirEntry(755)]

NameMapping(oldName, newName) == [OldName |-> oldName, NewName |-> newName]

RewriteRule(fileGlob, searchPattern, replacePattern) ==
    [FileGlob |-> fileGlob, SearchPattern |-> searchPattern, ReplacePattern |-> replacePattern]

DirMapping(source, destination) == [Source |-> source, Destination |-> destination]

\* cli_parsing.Config with one mapping m -> M and no post-copy operation
BaseConfig ==
    [SourceDir |-> SourceDir, TargetDir |-> TargetDir,
     Mappings |-> <<DirMapping("m", "M")>>,
     Renames |-> <<>>, CopyInclude |-> <<>>, CopyExclude |-> <<>>,
     ExplodeDirs |-> <<>>, FileRewrites |-> <<>>, RewritesAreRegex |-> FALSE,
     CleanTarget |-> FALSE, SkipConfirm |-> TRUE, DryRun |-> FALSE,
     LoopbackCopy |-> FALSE]

-----------------------------------------------------------------------------
(* CopyFiles called on its own, MaxRuns times on the same arguments.       *)

InitCopy ==
    \E src \in SourceTrees, dst \in DestTrees,
       inc \in IncludeChoices, exc \in ExcludeChoices, dry \in BOOLEAN :
        LET f == Overlay(Overlay(BaseFs,
                     Plant(Join(SourceDir, <<"m">>), src \cup {Node(<<>>, DirEntry(755))})),
                     Plant(Join(TargetDir, <<"M">>), dst))
        IN  /\ fs = f
            /\ fsAtCall = f
            /\ copyArgs = CopyArgs(Join(SourceDir, <<"m">>), Join(TargetDir, <<"M">>),
                                   inc, exc, dry)
            /\ pc = "pass1"
            /\ dirsToCreate = NoRecord
            /\ walk = <<>>
            /\ err = "nil"
            /\ log = <<>>
            /\ runs = 1
            /\ returned = <<>>
            /\ fs0 = f
            /\ config = [BaseConfig EXCEPT !.CopyInclude = inc, !.CopyExclude = exc,
                                           !.DryRun = dry]
            /\ mi = 1
            /\ ei = 1
            /\ items = <<>>
            /\ found = FALSE
            /\ ri = 1
            /\ wi = 1
            /\ matches = {}
            /\ loopback = FALSE
            /\ prompted = FALSE
            /\ moveArgs = NoMove
            /\ stdin = NoInput
            /\ confirmation = "none"

\* the caller calls CopyFiles again with the same arguments
CopyFilesAgain ==
    /\ pc = "copied"
    /\ runs < MaxRuns
    /\ pc' = "pass1"
    /\ runs' = runs + 1
    /\ fsAtCall' = fs
    /\ dirsToCreate' = NoRecord
    /\ walk' = <<>>
    /\ err' = "nil"
    /\ log' = <<>>
    /\ UNCHANGED <<fs, config, mi, fs0, copyArgs, returned, explodeVars, mainVars, unitVars>>

NextCopy ==
    \/ CopyFilesPass1
    \/ CopyFilesVisit
    \/ CopyFilesReturn
    \/ CopyFilesAgain

SpecCopy == InitCopy /\ [][NextCopy]_vars

-----------------------------------------------------------------------------
(* explodeDirs run on its own on a destination folder.                     *)

MaxDestEntries == 5

\* entries the destination folder may hold before the explosion
ExplodeCandidates ==
    { Node(<<"multi">>, DirEntry(755)),
      Node(<<"multi", "d1">>, FileEntry("1", 644)),
      Node(<<"multi", "d2">>, FileEntry("2", 444)),
      Node(<<"multi", "g">>, DirEntry(700)),
      Node(<<"multi", "g", "x">>, FileEntry("X", 644)),
      Node(<<"multi", "multi">>, DirEntry(755)),
      Node(<<"img">>, DirEntry(711)),
      Node(<<"img", "p">>, FileEntry("P", 644)),
      Node(<<"img", "d1">>, FileEntry("dup", 644)),
      Node(<<"img", "multi">>, FileEntry("M", 644)),
      Node(<<"d2">>, FileEntry("root", 600)),
      Node(<<"g">>, DirEntry(755)) }

ExplodeTrees ==
    {S \in SUBSET ExplodeCandidates : Cardinality(S) <= MaxDestEntries /\ ParentClosed(S)}

ExplodeChoices ==
    { <<"multi">>, <<"multi", "img">>, <<"img", "multi">>, <<"none", "img">>, <<"d2", "multi">> }

InitExplode ==
    \E dst \in ExplodeTrees \cup {{Node(<<>>, FileEntry("F", 644))}},
       names \in ExplodeChoices, dry \in BOOLEAN :
        LET f == Overlay(BaseFs, Plant(Join(TargetDir, <<"M">>),
                     IF \E n \in dst : n.rel = <<>> THEN dst
                     ELSE dst \cup {Node(<<>>, DirEntry(755))}))
        IN  /\ fs = f
            /\ fsAtCall = f
            /\ fs0 = f
            /\ config = [BaseConfig EXCEPT !.ExplodeDirs = names, !.DryRun = dry]
            /\ mi = 1
            /\ pc = "explodeDirs"
            /\ ei = 1
            /\ items = <<>>
            /\ found = FALSE
            /\ ri = 1
            /\ wi = 1
            /\ matches = {}
            /\ loopback = FALSE
            /\ prompted = FALSE
            /\ moveArgs = NoMove
            /\ stdin = NoInput
            /\ confirmation = "none"
            /\ err = "nil"
            /\ log = <<>>
            /\ returned = <<>>
            /\ copyArgs = CopyArgs(mappingSourcePath, mappingDestPath, <<>>, <<>>, dry)
            /\ dirsToCreate = NoRecord
            /\ walk = <<>>
            /\ runs = 0

NextExplode ==
    \/ explodeDirsNext
    \/ ExplodeFolderEnter
    \/ ExplodeFolderMove
    \/ ExplodeFolderRemove
    \/ explodeDirsResult

SpecExplode == InitExplode /\ [][NextExplode]_vars

-----------------------------------------------------------------------------
(* moveItem called on its own: a source and a destination that are neither *)
(* the same path nor one below the other, the destination possibly there   *)
(* already, the two possibly on different devices.                         *)

MoveSource == Join(TargetDir, <<"s">>)

\* what the source path may hold; no tree at all when it does not exist
MoveSourceCandidates ==
    { Node(<<"f">>, FileEntry("1", 644)),
      Node(<<"g">>, DirEntry(700)),
      Node(<<"g", "x">>, FileEntry("X", 444)),
      Node(<<"h">>, DirEntry(755)) }

MoveSourceTrees ==
    { {}, {Node(<<>>, FileEntry("A", 600))} }
    \cup { S \cup {Node(<<>>, DirEntry(750))} :
             S \in {S \in SUBSET MoveSourceCandidates : ParentClosed(S)} }

\* what the destination path may hold
MoveDestCandidates ==
    { Node(<<"f">>, DirEntry(755)),
      Node(<<"g">>, FileEntry("old", 644)),
      Node(<<"z">>, FileEntry("Z", 644)) }

MoveDestTrees ==
    { {}, {Node(<<>>, FileEntry("old", 644))} }
    \cup { S \cup {Node(<<>>, DirEntry(755))} : S \in SUBSET MoveDestCandidates }

\* the destination path: in an existing directory, or in one that is absent
MoveDests == { Join(TargetDir, <<"d">>), Join(TargetDir, <<"no", "d">>) }

InitMove ==
    \E src \in MoveSourceTrees, dst \in MoveDestTrees, destPath \in MoveDests,
       xdev \in BOOLEAN :
        LET f == Overlay(Overlay(BaseFs, Plant(MoveSource, src)),
                         IF Len(destPath) = 2 THEN Plant(destPath, dst) ELSE BaseFs)
        IN  /\ Len(destPath) > 2 => dst = {}
            /\ fs = f
            /\ fsAtCall = f
            /\ fs0 = f
            /\ moveArgs = [sourcePath |-> MoveSource, destPath |-> destPath, xdev |-> xdev]
            /\ stdin = NoInput
            /\ confirmation = "none"
            /\ config = BaseConfig
            /\ mi = 1
            /\ pc = "moveItem"
            /\ ei = 1
            /\ items = <<>>
            /\ found = FALSE
            /\ ri = 1
            /\ wi = 1
            /\ matches = {}
            /\ loopback = FALSE
            /\ prompted = FALSE
            /\ err = "nil"
            /\ log = <<>>
            /\ returned = <<>>
            /\ copyArgs = CopyArgs(mappingSourcePath, mappingDestPath, <<>>, <<>>, FALSE)
            /\ dirsToCreate = NoRecord
            /\ walk = <<>>
            /\ runs = 0

\* mutant: the source is removed whether or not the copy went through
moveItemCallRemoveAnyway ==
    /\ pc = "moveItem"
    /\ LET r == moveItem(fs, moveArgs.sourcePath, moveArgs.destPath, moveArgs.xdev)
       IN  /\ fs' = RemoveAll(r.fs, moveArgs.sourcePath)
           /\ err' = r.err
    /\ pc' = "moved"
    /\ UNCHANGED <<config, mi, log, returned, fsAtCall, fs0, copyVars, explodeVars,
                   mainVars, unitVars>>

\* one call moveItem(sourcePath, destPath)
moveItemCall ==
    /\ pc = "moveItem"
    /\ LET r == moveItem(fs, moveArgs.sourcePath, moveArgs.destPath, moveArgs.xdev)
       IN  /\ fs' = r.fs
           /\ err' = r.err
    /\ pc' = "moved"
    /\ UNCHANGED <<config, mi, log, returned, fsAtCall, fs0, copyVars, explodeVars,
                   mainVars, unitVars>>

NextMove == moveItemCall

SpecMove == InitMove /\ [][NextMove]_vars

-----------------------------------------------------------------------------
(* GetConfirmation called on its own, on a standard input that holds some  *)
(* lines and then ends or fails.                                           *)

\* the longest input, in lines
MaxLines == 2

\* what a line of the input may be, without its line feed
ConfirmLines == {"y", "YES", " yes\t", "n", "No\r", "x", "", "yes!", "y n"}

\* the text after the last line feed: the input may end in a line left open
ConfirmRests == {"", "y", "no"}

\* how reading ends, from then on at every read: the end of the input, or a
\* failure of the read
ConfirmEnds == {"EOF", "EIO"}

InputStreams ==
    { [lines |-> l, rest |-> r, end |-> e] :
        l \in UNION { [1..k -> ConfirmLines] : k \in 0..MaxLines },
        r \in ConfirmRests, e \in ConfirmEnds }

InitConfirm ==
    \E in \in InputStreams :
        /\ stdin = in
        /\ confirmation = "none"
        /\ pc = "prompt"
        /\ fs = BaseFs
        /\ fsAtCall = BaseFs
        /\ fs0 = BaseFs
        /\ moveArgs = NoMove
        /\ config = BaseConfig
        /\ mi = 1
        /\ ei = 1
        /\ items = <<>>
        /\ found = FALSE
        /\ ri = 1
        /\ wi = 1
        /\ matches = {}
        /\ loopback = FALSE
        /\ prompted = FALSE
        /\ err = "nil"
        /\ log = <<>>
        /\ returned = <<>>
        /\ copyArgs = CopyArgs(mappingSourcePath, mappingDestPath, <<>>, <<>>, FALSE)
        /\ dirsToCreate = NoRecord
        /\ walk = <<>>
        /\ runs = 0

\* the top of the loop: the prompt is printed
GetConfirmationPrompt ==
    /\ pc = "prompt"
    /\ pc' = "read"
    /\ UNCHANGED <<fs, config, mi, err, log, returned, fsAtCall, fs0, copyVars,
                   explodeVars, mainVars, unitVars>>

\* reader.ReadString('\n') and what the loop does with it: a read that
\* does not reach a line feed returns an error, its text is dropped and the
\* loop goes round; a line is trimmed and lowered and decides
GetConfirmationRead ==
    /\ pc = "read"
    /\ IF stdin.lines = <<>>
       THEN /\ stdin' = [stdin EXCEPT !.rest = ""]
            /\ err' = stdin.end
            /\ pc' = "prompt"
            /\ UNCHANGED confirmation
       ELSE LET response == ToLower(TrimSpace(Head(stdin.lines) \o "\n"))
            IN  /\ stdin' = [stdin EXCEPT !.lines = Tail(@)]
                /\ err' = "nil"
                /\ IF response \in {"y", "yes"}
                   THEN pc' = "confirmed" /\ confirmation' = "true"
                   ELSE IF response \in {"n", "no"}
                   THEN pc' = "confirmed" /\ confirmation' = "false"
                   ELSE pc' = "prompt" /\ UNCHANGED confirmation
    /\ UNCHANGED <<fs, config, mi, log, returned, fsAtCall, fs0, copyVars,
                   explodeVars, mainVars, moveArgs>>

NextConfirm == GetConfirmationPrompt \/ GetConfirmationRead

\* the loop runs in the one goroutine of the program and a read of an input
\* that has ended returns at once: each step that can be taken is taken
SpecConfirm ==
    /\ InitConfirm
    /\ [][NextConfirm]_vars
    /\ WF_vars(GetConfirmationPrompt)
    /\ WF_vars(GetConfirmationRead)

-----------------------------------------------------------------------------
(* SearchAndReplace called on its own, on a destination folder that holds  *)
(* playlists and other files, with one rewrite rule.                       *)

\* what a playlist may hold
RewriteContents ==
    { "", "./multidisk/disk1.bin", "./disk1.bin", "multidisk", "./multidisk/./multidisk" }

RewriteRules ==
    { RewriteRule("*.m3u", "./multidisk", "./"),
      RewriteRule("*.m3u", "./multidisk/", "./"),
      RewriteRule("**/*.m3u", ".", "-"),
      RewriteRule("*.txt", "multidisk", ""),
      RewriteRule("*.cue", "a", "b"),
      RewriteRule("**/*.m3u", "(", "x"),
      RewriteRule("*.cue", "(", "x"),
      RewriteRule("multidisk/**", "multidisk", "m") }

InitRewrite ==
    \E content \in RewriteContents, other \in RewriteContents, rule \in RewriteRules,
       regex \in BOOLEAN, nested \in BOOLEAN :
        LET f == Overlay(BaseFs, Plant(Join(TargetDir, <<"M">>),
                     { Node(<<>>, DirEntry(755)),
                       Node(<<"g.m3u">>, FileEntry(content, 644)),
                       Node(<<"n.txt">>, FileEntry(other, 600)) }
                     \cup (IF nested
                           THEN { Node(<<"multidisk">>, DirEntry(755)),
                                  Node(<<"multidisk", "h.m3u">>, FileEntry(other, 644)) }
                           ELSE {})))
        IN  /\ fs = f
            /\ fsAtCall = f
            /\ fs0 = f
            /\ config = [BaseConfig EXCEPT !.FileRewrites = <<rule>>, !.RewritesAreRegex = regex]
            /\ mi = 1
            /\ pc = "SearchAndReplace"
            /\ ei = 1
            /\ items = <<>>
            /\ found = FALSE
            /\ ri = 1
            /\ wi = 1
            /\ matches = {}
            /\ loopback = FALSE
            /\ prompted = FALSE
            /\ moveArgs = NoMove
            /\ stdin = NoInput
            /\ confirmation = "none"
            /\ err = "nil"
            /\ log = <<>>
            /\ returned = <<>>
            /\ copyArgs = CopyArgs(mappingSourcePath, mappingDestPath, <<>>, <<>>, FALSE)
            /\ dirsToCreate = NoRecord
            /\ walk = <<>>
            /\ runs = 0

NextRewrite ==
    \/ SearchAndReplaceEnter
    \/ SearchAndReplaceFile
    \/ SearchAndReplaceReturn

SpecRewrite == InitRewrite /\ [][NextRewrite]_vars

-----------------------------------------------------------------------------
(* The whole program.                                                      *)

\* what the source folder m may hold
RunSourceTrees ==
    { { Node(<<"a.t">>, FileEntry("ab", 644)) },
      { Node(<<"a.t">>, FileEntry("ab", 644)),
        Node(<<"b.j">>, FileEntry("ba", 444)),
        Node(<<"sub">>, DirEntry(755)),
        Node(<<"sub", "a.t">>, FileEntry("aa", 644)),
        Node(<<"emp">>, DirEntry(700)) } }

\* what the destination folder M may hold before the run
RunDestTrees ==
    { {},
      { Node(<<>>, DirEntry(755)) },
      { Node(<<>>, DirEntry(755)),
        Node(<<"a.t">>, FileEntry("old", 600)),
        Node(<<"k.t">>, FileEntry("aka", 644)),
        Node(<<"sub">>, DirEntry(711)),
        Node(<<"sub", "z">>, FileEntry("az", 644)) },
      { Node(<<>>, FileEntry("F", 644)) } }

MappingChoices ==
    { <<DirMapping("m", "M")>>,
      <<DirMapping("m", "M"), DirMapping("n", "N")>>,
      <<DirMapping("m", "M"), DirMapping("x", "X")>> }

Operations(include, exclude, explode, renames, rewrites) ==
    [CopyInclude |-> include, CopyExclude |-> exclude, ExplodeDirs |-> explode,
     Renames |-> renames, FileRewrites |-> rewrites]

\* the patterns and post-copy operations of a run
OperationChoices ==
    { Operations(<<>>, <<>>, <<>>, <<>>, <<>>),
      Operations(<<"**/*.t">>, <<>>, <<"sub">>, <<NameMapping("a.t", "r.t")>>,
                 <<RewriteRule("*.t", "a", "z"), RewriteRule("r.t", "", "-")>>),
      Operations(<<>>, <<"**/*.j">>, <<"none", "sub">>,
                 <<NameMapping("none", "q"), NameMapping("k.t", "a.t")>>,
                 <<RewriteRule("**/*.x", "a", "z"), RewriteRule("**", "a", "z")>>),
      Operations(<<>>, <<>>, <<>>, <<NameMapping("a.t", "sub")>>,
                 <<RewriteRule("**/*.t", ".", "z")>>),
      Operations(<<>>, <<>>, <<"a.t">>, <<>>, <<>>),
      Operations(<<"*.x">>, <<>>, <<"none">>, <<NameMapping("none", "q")>>,
                 <<RewriteRule("*.x", "a", "z")>>),
      Operations(<<>>, <<"sub/**">>, <<"emp">>, <<>>,
                 <<RewriteRule("[", "a", "z"), RewriteRule("**/a.t", "(", "z")>>),
      Operations(<<"[", "*.t">>, <<"a[">>, <<>>, <<NameMapping("k.t", "j.t")>>,
                 <<RewriteRule("*[", "a", "z")>>),
      Operations(<<>>, <<>>, <<>>, <<NameMapping("a.t", "c.t"), NameMapping("c.t", "d.t")>>,
                 <<>>) }

Init ==
    \E src \in RunSourceTrees, dst \in RunDestTrees, maps \in MappingChoices,
       ops \in OperationChoices,
       dry \in BOOLEAN, clean \in BOOLEAN, skip \in BOOLEAN, regex \in BOOLEAN,
       loop \in BOOLEAN :
        LET f == Overlay(Overlay(Overlay(BaseFs,
                     Plant(Join(SourceDir, <<"m">>), src \cup {Node(<<>>, DirEntry(755))})),
                     Plant(Join(SourceDir, <<"n">>),
                           {Node(<<>>, DirEntry(755)), Node(<<"a.t">>, FileEntry("N", 644))})),
                     Overlay(Plant(Join(TargetDir, <<"N">>), {Node(<<>>, DirEntry(755))}),
                             Plant(Join(TargetDir, <<"M">>), dst)))
        IN  /\ fs = f
            /\ fsAtCall = f
            /\ fs0 = f
            /\ config = [BaseConfig EXCEPT
                           !.Mappings = maps,
                           !.CopyInclude = ops.CopyInclude, !.CopyExclude = ops.CopyExclude,
                           !.ExplodeDirs = ops.ExplodeDirs, !.Renames = ops.Renames,
                           !.FileRewrites = ops.FileRewrites, !.RewritesAreRegex = regex,
                           !.CleanTarget = clean, !.SkipConfirm = skip, !.DryRun = dry,
                           !.LoopbackCopy = loop]
            /\ pc = "main"
            /\ mi = 1
            /\ err = "nil"
            /\ log = <<>>
            /\ returned = <<>>
            /\ copyArgs = CopyArgs(<<>>, <<>>, <<>>, <<>>, dry)
            /\ dirsToCreate = NoRecord
            /\ walk = <<>>
            /\ runs = 0
            /\ ei = 1
            /\ items = <<>>
            /\ found = FALSE
            /\ ri = 1
            /\ wi = 1
            /\ matches = {}
            /\ loopback = FALSE
            /\ prompted = FALSE
            /\ moveArgs = NoMove
            /\ stdin = NoInput
            /\ confirmation = "none"

Next ==
    \/ ParseAndValidate
    \/ summarizeWarnConfirm
    \/ mainNextMapping
    \/ processMappingClean
    \/ processMappingCopy
    \/ CopyFilesPass1
    \/ CopyFilesVisit
    \/ CopyFilesReturn
    \/ processMappingCopied
    \/ explodeDirsNext
    \/ ExplodeFolderEnter
    \/ ExplodeFolderMove
    \/ ExplodeFolderRemove
    \/ explodeDirsResult
    \/ processRenames
    \/ processRewritesNext
    \/ SearchAndReplaceEnter
    \/ SearchAndReplaceFile
    \/ SearchAndReplaceReturn
    \/ processRewritesResult
    \/ processMappingDone

Spec == Init /\ [][Next]_vars

-----------------------------------------------------------------------------
(* Properties of CopyFiles, checked under SpecCopy.                        *)

Src == copyArgs.sourcePath

Dst == copyArgs.destPath

Inc == copyArgs.copyInclude

Exc == copyArgs.copyExclude

MatchesAny(P, L) == \E i \in 1..Len(L) : Match(L[i], P)

\* the source's files, and its directories other than the root
SrcFiles == {p \in Subtree(fs, Src) : IsFile(fs, p)}

SrcDirs == {p \in Subtree(fs, Src) \ {Src} : IsDir(fs, p)}

Admitted(rel) == shouldInclude(rel, Inc, Exc)

FilesBelow(d) == {p \in SrcFiles : IsPrefix(d, p)}

AdmittedFilesBelow(d) == {p \in FilesBelow(d) : Admitted(Rel(Src, p))}

InDest(p) == Join(Dst, Rel(Src, p))

\* the call in progress found the destination root existing and empty
DestWasEmptyRoot == IsDir(fsAtCall, Dst) /\ Subtree(fsAtCall, Dst) = {Dst}

ReturnedNil == pc = "copied" /\ err = "nil" /\ ~copyArgs.dryRun

\* C1: shouldInclude(P, I, E) is true exactly when (I is empty or P matches a
\* pattern of I) and P matches no pattern of E; with I empty it is the negation
\* of matchesAny(P, E), with E empty it is matchesAny(P, I); and what pass 2
\* logs as skipped or copied follows that rule.
C1_ShouldIncludeLaw ==
    /\ \A p \in Subtree(fs, Src) \ {Src} :
          LET P == Rel(Src, p)
          IN  /\ shouldInclude(P, Inc, Exc)
                    = ((Inc = <<>> \/ MatchesAny(P, Inc)) /\ ~MatchesAny(P, Exc))
              /\ shouldInclude(P, <<>>, Exc) = ~MatchesAny(P, Exc)
              /\ shouldInclude(P, Inc, <<>>) = (Inc = <<>> \/ MatchesAny(P, Inc))
              /\ MatchesAny(P, Exc) => ~shouldInclude(P, Inc, Exc)
    /\ \A i \in 1..Len(log) :
          /\ log[i].op = "skip" =>
                ~((Inc = <<>> \/ MatchesAny(log[i].path, Inc)) /\ ~MatchesAny(log[i].path, Exc))
          /\ log[i].op = "copy" =>
                ((Inc = <<>> \/ MatchesAny(log[i].path, Inc)) /\ ~MatchesAny(log[i].path, Exc))

\* a file that matches an include pattern and an exclude pattern was skipped
C1_Witness ==
    \E i \in 1..Len(log) :
        /\ log[i].op = "skip"
        /\ MatchesAny(log[i].path, Inc)
        /\ MatchesAny(log[i].path, Exc)

\* C2 as claimed: after pass 1 the record holds a non-root source directory
\* iff it has no descendant files and its own path satisfies shouldInclude, or
\* a file below it satisfies shouldInclude; the root is never recorded.
C2_AsClaimed ==
    pc = "pass2" =>
        /\ DOMAIN dirsToCreate \subseteq {InDest(d) : d \in SrcDirs}
        /\ \A d \in SrcDirs :
              InDest(d) \in DOMAIN dirsToCreate
                 <=> \/ FilesBelow(d) = {} /\ Admitted(Rel(Src, d))
                     \/ AdmittedFilesBelow(d) # {}

\* C2 amended: after pass 1 the record holds a non-root source directory iff
\* it has no entries at all (neither files nor directories) and its own path
\* satisfies shouldInclude, or a file below it satisfies shouldInclude; the
\* root is never recorded.
C2_Record ==
    pc = "pass2" =>
        /\ DOMAIN dirsToCreate \subseteq {InDest(d) : d \in SrcDirs}
        /\ \A d \in SrcDirs :
              InDest(d) \in DOMAIN dirsToCreate
                 <=> \/ ChildNames(fs, d) = {} /\ Admitted(Rel(Src, d))
                     \/ AdmittedFilesBelow(d) # {}

\* pass 1 recorded an empty directory and left out a directory that matches
\* the patterns and holds directories only
C2_Witness ==
    /\ pc = "pass2"
    /\ \E d \in SrcDirs : ChildNames(fs, d) = {} /\ InDest(d) \in DOMAIN dirsToCreate
    /\ \E d \in SrcDirs :
          /\ ChildNames(fs, d) # {}
          /\ FilesBelow(d) = {}
          /\ Admitted(Rel(Src, d))
          /\ InDest(d) \notin DOMAIN dirsToCreate

\* C3: after CopyFiles returns nil, not in dry run, into an existing and
\* initially empty destination root, the destination's files are exactly the
\* source's files that satisfy shouldInclude, at the same relative paths with
\* the same bytes and mode; with no patterns every file is copied, none skipped.
C3_ExactFiles ==
    (ReturnedNil /\ DestWasEmptyRoot) =>
        /\ {Rel(Dst, q) : q \in {r \in Subtree(fs, Dst) : IsFile(fs, r)}}
              = {Rel(Src, p) : p \in AdmittedFilesBelow(Src)}
        /\ \A p \in AdmittedFilesBelow(Src) :
              /\ fs[InDest(p)].data = fs[p].data
              /\ fs[InDest(p)].mode = fs[p].mode
        /\ (Inc = <<>> /\ Exc = <<>>) =>
              /\ \A p \in SrcFiles : IsFile(fs, InDest(p))
              /\ \A i \in 1..Len(log) : log[i].op # "skip"

\* a read-only file was copied and another file was skipped
C3_Witness ==
    /\ ReturnedNil
    /\ DestWasEmptyRoot
    /\ \E p \in AdmittedFilesBelow(Src) : fs[p].mode = 444 /\ IsFile(fs, InDest(p))
    /\ \E i \in 1..Len(log) : log[i].op = "skip"

DirsInDest == {Rel(Dst, q) : q \in {r \in Subtree(fs, Dst) \ {Dst} : IsDir(fs, r)}}

\* C4 as claimed: a source directory without descendant files is in the
\* destination iff its own path satisfies the rules, one with descendant files
\* iff a descendant file is admitted; no other directory is created.
C4_AsClaimed ==
    (ReturnedNil /\ DestWasEmptyRoot) =>
        /\ DirsInDest \subseteq {Rel(Src, d) : d \in SrcDirs}
        /\ \A d \in SrcDirs :
              IF FilesBelow(d) = {}
              THEN IsDir(fs, InDest(d)) <=> Admitted(Rel(Src, d))
              ELSE IsDir(fs, InDest(d)) <=> AdmittedFilesBelow(d) # {}

\* the directories below d that hold nothing and satisfy the rules themselves
AdmittedEmptyDirsBelow(d) ==
    {e \in SrcDirs : IsPrefix(d, e) /\ e # d /\ ChildNames(fs, e) = {} /\ Admitted(Rel(Src, e))}

\* C4 amended: after a successful copy, not in dry run, into an initially
\* empty destination root, a source directory with no entries at all is in
\* the destination iff its own path satisfies the rules; a source directory
\* with entries is there iff a file below it is admitted or a directory below
\* it has no entries and satisfies the rules by its own path; no other
\* directory is created.
C4_Directories ==
    (ReturnedNil /\ DestWasEmptyRoot) =>
        /\ DirsInDest \subseteq {Rel(Src, d) : d \in SrcDirs}
        /\ \A d \in SrcDirs :
              IF ChildNames(fs, d) = {}
              THEN IsDir(fs, InDest(d)) <=> Admitted(Rel(Src, d))
              ELSE IsDir(fs, InDest(d))
                      <=> (AdmittedFilesBelow(d) # {} \/ AdmittedEmptyDirsBelow(d) # {})

\* an admitted empty directory is in the destination, and so is a directory
\* above it that no pattern matches and no admitted file lies in
C4_Witness ==
    /\ ReturnedNil
    /\ DestWasEmptyRoot
    /\ \E d \in SrcDirs :
          /\ ChildNames(fs, d) # {}
          /\ ~Admitted(Rel(Src, d))
          /\ AdmittedFilesBelow(d) = {}
          /\ IsDir(fs, InDest(d))
          /\ \E e \in AdmittedEmptyDirsBelow(d) : IsDir(fs, InDest(e))

\* C6: CopyFiles removes no entry, and changes the content of no file that
\* was in the destination before the call unless its relative path is that of
\* an admitted source file.
C6_NothingRemoved ==
    \A p \in DOMAIN fsAtCall :
        /\ p \in DOMAIN fs
        /\ fs[p].kind = fsAtCall[p].kind
        /\ (/\ IsFile(fsAtCall, p)
            /\ ~(IsPrefix(Dst, p) /\ Rel(Dst, p) \in {Rel(Src, q) : q \in AdmittedFilesBelow(Src)}))
              => fs[p].data = fsAtCall[p].data

\* a copy ran over a destination that held a file no source file is admitted
\* for, at a path the source has a rejected file at, and that file is as before
C6_Witness ==
    /\ ReturnedNil
    /\ \E i \in 1..Len(log) : log[i].op = "copy"
    /\ \E p \in SrcFiles :
          /\ ~Admitted(Rel(Src, p))
          /\ IsFile(fsAtCall, InDest(p))
          /\ fs[InDest(p)] = fsAtCall[InDest(p)]
          /\ fs[InDest(p)].data # fs[p].data

-----------------------------------------------------------------------------
(* Properties of ExplodeFolder, checked under SpecExplode.                 *)

\* the paths strictly below p
Below(f, p) == Subtree(f, p) \ {p}

\* the subtree of g at q is the subtree of f at p
SameSubtree(f, p, g, q) ==
    /\ {Rel(p, r) : r \in Subtree(f, p)} = {Rel(q, r) : r \in Subtree(g, q)}
    /\ \A r \in Subtree(f, p) : g[Join(q, Rel(p, r))] = f[r]

ExplodedFolder(name) == Join(mappingDestPath, <<name>>)

\* C9 for one call: after ExplodeFolder returned (true, nil) the folder is
\* gone, every entry that was below it is at the same relative path below
\* the destination root with the same kind, bytes and mode, and nothing else
\* of the filesystem has changed (an empty folder is simply removed)
C9_EachCall ==
    (pc = "exploded" /\ found /\ err = "nil") =>
        /\ ~Exists(fs, folderPath)
        /\ \A q \in Below(fsAtCall, folderPath) :
              /\ Exists(fs, Join(mappingDestPath, Rel(folderPath, q)))
              /\ fs[Join(mappingDestPath, Rel(folderPath, q))] = fsAtCall[q]
        /\ \A p \in DOMAIN fsAtCall \ Subtree(fsAtCall, folderPath) :
              p \in DOMAIN fs /\ fs[p] = fsAtCall[p]
        /\ Cardinality(DOMAIN fs) = Cardinality(DOMAIN fsAtCall) - 1

\* C9 for two calls in sequence: when both names were directories at the
\* start and explodeDirs came to its end without error, every entry that was
\* below either of them is at the same relative path below the destination
\* root, unchanged, and each of the two names is absent unless it is the name
\* of a child of the other directory, which now carries it
C9_Sequence ==
    (pc = "mapped" /\ ~config.DryRun /\ Len(config.ExplodeDirs) = 2
        /\ \A i \in 1..2 : IsDir(fs0, ExplodedFolder(config.ExplodeDirs[i]))) =>
        \A i \in 1..2 :
            LET sub == ExplodedFolder(config.ExplodeDirs[i])
                other == ExplodedFolder(config.ExplodeDirs[3 - i])
            IN  /\ \A q \in Below(fs0, sub) :
                      /\ Exists(fs, Join(mappingDestPath, Rel(sub, q)))
                      /\ fs[Join(mappingDestPath, Rel(sub, q))] = fs0[q]
                /\ Exists(fs, sub) => config.ExplodeDirs[i] \in ChildNames(fs0, other)

EarlierChildren(name) == {c \in ChildNames(fsAtCall, folderPath) : LessStr(c, name)}

\* C10: when a child's name exists directly under destRoot, ExplodeFolder
\* returns (true, conflict error); the folder is still there, the colliding
\* child is still inside it with its content, the entry of that name under
\* destRoot is what it was and, unless it is the exploded folder itself, has
\* kept all it held, the children that come earlier in name order are under
\* destRoot with their content and no longer in the folder, and the children
\* that come later are still in the folder
C10_Conflict ==
    /\ (pc = "exploded" /\ IsDir(fsAtCall, folderPath)
          /\ \E c \in ChildNames(fsAtCall, folderPath) :
                Exists(fsAtCall, Join(mappingDestPath, <<c>>)))
       => (found /\ err = "conflict")
    /\ (pc = "exploded" /\ err = "conflict") =>
          LET c == Head(items)
          IN  /\ found
              /\ IsDir(fs, folderPath)
              /\ Exists(fsAtCall, Join(mappingDestPath, <<c>>))
              /\ SameSubtree(fsAtCall, Join(folderPath, <<c>>), fs, Join(folderPath, <<c>>))
              /\ fs[Join(mappingDestPath, <<c>>)] = fsAtCall[Join(mappingDestPath, <<c>>)]
              /\ c # explodeDir =>
                    SameSubtree(fsAtCall, Join(mappingDestPath, <<c>>),
                                fs, Join(mappingDestPath, <<c>>))
              /\ \A e \in EarlierChildren(c) :
                    /\ SameSubtree(fsAtCall, Join(folderPath, <<e>>),
                                   fs, Join(mappingDestPath, <<e>>))
                    /\ ~Exists(fs, Join(folderPath, <<e>>))
              /\ \A l \in ChildNames(fsAtCall, folderPath) \ (EarlierChildren(c) \cup {c}) :
                    SameSubtree(fsAtCall, Join(folderPath, <<l>>), fs, Join(folderPath, <<l>>))

\* C10 as the claim words it: at a conflict the entry of the colliding name
\* under destRoot has kept all it held, also when that entry is the folder
\* being exploded
C10_AsClaimed ==
    (pc = "exploded" /\ err = "conflict") =>
        /\ found
        /\ IsDir(fs, folderPath)
        /\ SameSubtree(fsAtCall, Join(folderPath, <<Head(items)>>),
                       fs, Join(folderPath, <<Head(items)>>))
        /\ SameSubtree(fsAtCall, Join(mappingDestPath, <<Head(items)>>),
                       fs, Join(mappingDestPath, <<Head(items)>>))
        /\ \A e \in EarlierChildren(Head(items)) :
              /\ SameSubtree(fsAtCall, Join(folderPath, <<e>>), fs, Join(mappingDestPath, <<e>>))
              /\ ~Exists(fs, Join(folderPath, <<e>>))

\* a conflict on the second child: the first child has been moved before
C10_Witness ==
    /\ pc = "exploded"
    /\ err = "conflict"
    /\ Head(items) = "d2"
    /\ IsFile(fs, Join(mappingDestPath, <<"d1">>))
    /\ ~Exists(fsAtCall, Join(mappingDestPath, <<"d1">>))
    /\ fs[Join(mappingDestPath, <<"d2">>)].data = "root"
    /\ fs[Join(folderPath, <<"d2">>)].data = "2"

-----------------------------------------------------------------------------
(* Properties of a whole run, checked under Spec.                          *)

\* C5: while the dry-run flag is set the filesystem is, at every point of the
\* run (clean, both copy passes, loopback copy, explode, rename, rewrite, for
\* every mapping), the filesystem the run started with, and every CopyFiles
\* call that has returned has returned no error
C5_DryRun ==
    config.DryRun =>
        /\ fs = fs0
        /\ \A i \in 1..Len(returned) : returned[i] = "nil"

\* a dry run over two mappings with the clean flag, a loopback copy, explode
\* names, rename pairs and rewrite rules configured, on a destination that
\* held entries, has come to its end
C5_Witness ==
    /\ pc = "exit0"
    /\ config.DryRun
    /\ config.CleanTarget
    /\ config.LoopbackCopy
    /\ Len(config.Mappings) = 2
    /\ Len(config.ExplodeDirs) > 0
    /\ Len(config.Renames) > 0
    /\ Len(config.FileRewrites) > 0
    /\ Len(returned) = 4
    /\ IsFile(fs0, <<"T", "M", "a.t">>)
    /\ IsFile(fs0, <<"S", "m", "sub", "a.t">>)

\* C27: every directory between the source root and a file that shouldInclude
\* admits is in the record pass 1 builds; so, when the destination root is a
\* directory, pass 2 comes to an admitted file only after the directory it
\* goes into has been made.
C27_Admitted ==
    {p \in Subtree(fs, copyArgs.sourcePath) :
        /\ IsFile(fs, p)
        /\ shouldInclude(Rel(copyArgs.sourcePath, p), copyArgs.copyInclude,
                         copyArgs.copyExclude)}

C27_Recorded ==
    pc = "pass2" =>
        \A p \in C27_Admitted :
            LET rel == Rel(copyArgs.sourcePath, p)
            IN  \A k \in 1..(Len(rel) - 1) :
                   /\ Join(copyArgs.destPath, SubSeq(rel, 1, k)) \in DOMAIN dirsToCreate
                   /\ dirsToCreate[Join(copyArgs.destPath, SubSeq(rel, 1, k))]
                         = fs[Join(copyArgs.sourcePath, SubSeq(rel, 1, k))].mode

C27_AtFile ==
    /\ pc = "pass2" /\ walk # <<>>
    /\ Head(walk) \in C27_Admitted
    /\ ~copyArgs.dryRun

C27_ParentMade ==
    (C27_AtFile /\ IsDir(fsAtCall, copyArgs.destPath)) =>
        IsDir(fs, Parent(Join(copyArgs.destPath, Rel(copyArgs.sourcePath, Head(walk)))))

C27_Parents == C27_Recorded /\ C27_ParentMade

\* pass 2 is at an admitted file two levels down whose destination directory
\* was not there when CopyFiles was called
C27_Witness ==
    /\ C27_AtFile
    /\ Len(Rel(copyArgs.sourcePath, Head(walk))) = 2
    /\ IsDir(fsAtCall, copyArgs.destPath)
    /\ ~Exists(fsAtCall, Parent(Join(copyArgs.destPath, Rel(copyArgs.sourcePath, Head(walk)))))
    /\ copyArgs.copyInclude # <<>>

-----------------------------------------------------------------------------
(* Further properties of ExplodeFolder and moveItem.                       *)

\* C11: when destRoot/subdirName is there and is not a directory,
\* ExplodeFolder returns (true, error) and the filesystem, that file
\* included, is what it was when ExplodeFolder was called
C11_NotADirectory ==
    (pc = "exploded" /\ IsFile(fsAtCall, folderPath)) =>
        /\ found
        /\ err = "notdir"
        /\ fs = fsAtCall
        /\ IsFile(fs, folderPath)

\* ExplodeFolder has returned from a call on a file that stands next to
\* another entry of the destination root
C11_Witness ==
    /\ pc = "exploded"
    /\ explodeDir = "d2"
    /\ IsFile(fsAtCall, folderPath)
    /\ fs[folderPath].data = "root"
    /\ IsDir(fs, Join(mappingDestPath, <<"multi">>))
    /\ err = "notdir"

\* C28: ExplodeFolder moves the children of the folder one at a time, the
\* least name first, and looks for a conflict at a child only when that child
\* is the next to move; so, when it ends on a conflict, the children moved
\* under the destination root are exactly those whose names come before the
\* first colliding name, and the colliding child and all after it are still
\* in the folder.
C28_Colliding ==
    {c \in ChildNames(fsAtCall, folderPath) : Exists(fsAtCall, Join(mappingDestPath, <<c>>))}

C28_First == CHOOSE c \in C28_Colliding : \A d \in C28_Colliding : d = c \/ LessStr(c, d)

C28_Moved ==
    {c \in ChildNames(fsAtCall, folderPath) :
        /\ ~Exists(fs, Join(folderPath, <<c>>))
        /\ Exists(fs, Join(mappingDestPath, <<c>>))
        /\ ~Exists(fsAtCall, Join(mappingDestPath, <<c>>))}

C28_AtConflict ==
    (pc = "exploded" /\ err = "conflict") =>
        /\ C28_Colliding # {}
        /\ C28_Moved = {c \in ChildNames(fsAtCall, folderPath) : LessStr(c, C28_First)}
        /\ ChildNames(fs, folderPath) = ChildNames(fsAtCall, folderPath) \ C28_Moved
        /\ C28_First \in ChildNames(fs, folderPath)

C28_MoveStep ==
    (pc = "moving" /\ items # <<>>) =>
        /\ \A c \in ChildNames(fs, folderPath) : c = Head(items) \/ LessStr(Head(items), c)
        /\ {items[i] : i \in 1..Len(items)} = ChildNames(fs, folderPath)
        /\ (err' = "conflict") <=> Exists(fs, Join(mappingDestPath, <<Head(items)>>))
        /\ err' = "nil" =>
              /\ ChildNames(fs', folderPath) = ChildNames(fs, folderPath) \ {Head(items)}
              /\ Exists(fs', Join(mappingDestPath, <<Head(items)>>))
              /\ items' = Tail(items)
        /\ err' # "nil" => ChildNames(fs', folderPath) = ChildNames(fs, folderPath)

C28_InOrder == []C28_AtConflict /\ [][C28_MoveStep]_vars

\* two children collide; the call has ended at the first of them with the
\* one child before it moved and the second colliding child still in the
\* folder
C28_Witness ==
    /\ pc = "exploded" /\ err = "conflict"
    /\ Cardinality(C28_Colliding) = 2
    /\ Cardinality(C28_Moved) = 1
    /\ Head(items) = C28_First
    /\ C28_Colliding \subseteq ChildNames(fs, folderPath)

\* C29: when the folder holds a child of the folder's own name, ExplodeFolder
\* ends on a conflict, at that child or at an earlier one: it returns
\* (true, error), the folder is not removed and that child stays in it, with
\* all it holds, at every point of the call.
C29_Child == Join(folderPath, <<explodeDir>>)

C29_Case ==
    /\ pc \in {"moving", "exploded"}
    /\ IsDir(fsAtCall, folderPath)
    /\ Exists(fsAtCall, C29_Child)

C29_OwnName ==
    C29_Case =>
        /\ found
        /\ IsDir(fs, folderPath)
        /\ SameSubtree(fsAtCall, C29_Child, fs, C29_Child)
        /\ fs[folderPath] = fsAtCall[folderPath]
        /\ pc = "moving" => err = "nil" /\ explodeDir \in {items[i] : i \in 1..Len(items)}
        /\ pc = "exploded" => err = "conflict"

\* the call has ended at the child of the folder's own name, after it moved
\* the children before it
C29_Witness ==
    /\ pc = "exploded" /\ C29_Case /\ err = "conflict"
    /\ Head(items) = explodeDir
    /\ EarlierChildren(explodeDir) # {}
    /\ \A e \in EarlierChildren(explodeDir) : Exists(fs, Join(mappingDestPath, <<e>>))

-----------------------------------------------------------------------------
(* Further properties of a whole run, checked under Spec.                  *)

\* the rewrite rule and the rename pair at hand
rewriteRule == config.FileRewrites[wi]

renameOldPath == Join(mappingDestPath, <<config.Renames[ri].OldName>>)

\* C12, ExplodeFolder: on a folder os.Stat reports as not existing it has
\* returned (false, nil) and the filesystem is what it was at the call
C12_ExplodeAbsent ==
    (pc = "exploded" /\ StatErr(fsAtCall, folderPath) = "ENOENT") =>
        (~found /\ err = "nil" /\ fs = fsAtCall)

\* C12, SearchAndReplace: on a glob that matched nothing it has returned
\* (false, nil) and the filesystem is what it was at the call
C12_GlobNoMatch ==
    (pc = "rewritten" /\ ~BadPattern(rewriteRule.FileGlob)
        /\ FilepathGlob(fsAtCall, mappingDestPath, rewriteRule.FileGlob) = {}) =>
        (~found /\ err = "nil" /\ fs = fsAtCall)

\* C12, the orchestrator: after a (false, nil) result, and at a rename whose
\* old name os.Stat reports as not existing, the step changes no entry and
\* goes on to the next item of the same list
C12_Continues ==
    /\ (pc = "exploded" /\ ~found /\ err = "nil") =>
          (pc' = "explodeDirs" /\ ei' = ei + 1 /\ fs' = fs)
    /\ (pc = "rewritten" /\ ~found /\ err = "nil") =>
          (pc' = "processRewrites" /\ wi' = wi + 1 /\ fs' = fs)
    /\ (pc = "processRenames" /\ ri <= Len(config.Renames) /\ ~config.DryRun
          /\ StatErr(fs, renameOldPath) = "ENOENT") =>
          (pc' = "processRenames" /\ ri' = ri + 1 /\ fs' = fs)

\* C12: not-found conditions (no such entry) are no-ops: ExplodeFolder and
\* SearchAndReplace return (false, nil) and change nothing, a rename of an
\* absent name changes nothing, and the orchestrator goes on to the next item
C12_NotFound == [](C12_ExplodeAbsent /\ C12_GlobNoMatch) /\ [][C12_Continues]_vars

\* C12 as the claim words it, for every absent name: ExplodeFolder on a name
\* that is not there has returned (false, nil), and the run never ends on the
\* stat of a rename's old name
C12_AsClaimed ==
    /\ (pc = "exploded" /\ ~Exists(fsAtCall, folderPath)) => (~found /\ err = "nil")
    /\ ~(pc = "exit1" /\ err = "stat")

\* a run whose explode name, rename pair and rewrite glob all find nothing in
\* a destination that holds entries has come to its end, nothing changed
C12_Witness ==
    /\ pc = "exit0"
    /\ ~config.DryRun
    /\ ~config.CleanTarget
    /\ config.ExplodeDirs = <<"none">>
    /\ config.Renames = <<NameMapping("none", "q")>>
    /\ config.FileRewrites = <<RewriteRule("*.x", "a", "z")>>
    /\ IsFile(fs0, <<"T", "M", "k.t">>)
    /\ fs = fs0
    /\ ei = 2 /\ ri = 2 /\ wi = 2

\* C13: moveItem moves all or nothing.  When it returns nil the source is gone
\* and the destination holds the file, or the whole subtree, that was at the
\* source, by rename or by copy-and-remove.  When the source does not exist it
\* returns an error and changes nothing.  Whenever it returns an error, a
\* fallback copy that stopped part-way included, the source is as it was.
MoveSrc == moveArgs.sourcePath

MoveDst == moveArgs.destPath

C13_Moved ==
    /\ ~Exists(fs, MoveSrc)
    /\ \A r \in Subtree(fsAtCall, MoveSrc) :
        LET q == Join(MoveDst, Rel(MoveSrc, r))
        IN  /\ Exists(fs, q)
            /\ fs[q].kind = fsAtCall[r].kind
            /\ (IsFile(fsAtCall, r) \/ ~Exists(fsAtCall, q)) => fs[q] = fsAtCall[r]

C13_SourceIntact ==
    \A p \in DOMAIN fsAtCall \cup DOMAIN fs :
        IsPrefix(MoveSrc, p) => p \in DOMAIN fs /\ p \in DOMAIN fsAtCall /\ fs[p] = fsAtCall[p]

C13_AllOrNothing ==
    pc = "moved" =>
        /\ err = "nil" => C13_Moved
        /\ ~Exists(fsAtCall, MoveSrc) => err # "nil" /\ fs = fsAtCall
        /\ err # "nil" => C13_SourceIntact

\* a fallback copy that stopped part-way: one entry reached the destination,
\* the call returned an error, and the source still holds that entry
C13_Witness ==
    /\ pc = "moved"
    /\ err # "nil"
    /\ Exists(fsAtCall, MoveSrc)
    /\ \E r \in Subtree(fsAtCall, MoveSrc) :
        /\ IsFile(fsAtCall, r)
        /\ ~IsFile(fsAtCall, Join(MoveDst, Rel(MoveSrc, r)))
        /\ IsFile(fs, Join(MoveDst, Rel(MoveSrc, r)))
        /\ IsFile(fs, r)

\* C14: when SearchAndReplace has gone through without an error on a glob that
\* matched something, it reports (true, nil), changed or not; every matched
\* file under the destination folder, whether this run copied it or it was there
\* before, holds its former content with every non-overlapping occurrence of
\* the search pattern, leftmost first, replaced; every other entry is as it was.
OccursAt(content, i, searchTerm, isRegex) ==
    /\ i + Len(searchTerm) - 1 <= Len(content)
    /\ \A k \in 1..Len(searchTerm) :
          \/ SubSeq(content, i + k - 1, i + k - 1) = SubSeq(searchTerm, k, k)
          \/ (isRegex /\ SubSeq(searchTerm, k, k) = ".")

\* the start positions of the occurrences that are replaced: occurrences that
\* do not overlap, none left out unless an earlier chosen one overlaps it
Leftmost(content, searchTerm, isRegex) ==
    CHOOSE P \in SUBSET (1..Len(content) + 1) :
        /\ \A i \in P : OccursAt(content, i, searchTerm, isRegex)
        /\ \A i, j \in P : i < j => i + Len(searchTerm) <= j
        /\ \A i \in 1..Len(content) + 1 :
              (OccursAt(content, i, searchTerm, isRegex) /\ i \notin P)
                  => \E j \in P : j < i /\ i < j + Len(searchTerm)

RECURSIVE Pieces(_, _, _, _, _)
Pieces(content, P, width, replaceTerm, i) ==
    IF i > Len(content) + 1 THEN ""
    ELSE (IF i \in P THEN replaceTerm ELSE "")
         \o (IF i <= Len(content) /\ ~\E j \in P : j <= i /\ i < j + width
             THEN SubSeq(content, i, i) ELSE "")
         \o Pieces(content, P, width, replaceTerm, i + 1)

Replaced(content, rule, isRegex) ==
    Pieces(content, Leftmost(content, rule.SearchPattern, isRegex),
           Len(rule.SearchPattern), rule.ReplacePattern, 1)

C14_Matched == FilepathGlob(fsAtCall, mappingDestPath, config.FileRewrites[wi].FileGlob)

C14_Rewritten ==
    (pc = "rewritten" /\ err = "nil" /\ C14_Matched # {}) =>
        /\ found
        /\ DOMAIN fs = DOMAIN fsAtCall
        /\ \A p \in DOMAIN fs :
              IF p \in C14_Matched
              THEN /\ IsFile(fsAtCall, p)
                   /\ fs[p] = [fsAtCall[p] EXCEPT !.data =
                                  Replaced(fsAtCall[p].data, config.FileRewrites[wi],
                                           config.RewritesAreRegex)]
              ELSE fs[p] = fsAtCall[p]

\* a file that was in the destination before the run and that the run did not
\* copy is rewritten, at two places; another matched file is rewritten to the
\* content it had; an unmatched file is there
C14_Witness ==
    /\ pc = "rewritten" /\ err = "nil" /\ found
    /\ \E p \in C14_Matched :
          /\ p \in DOMAIN fs0 /\ fs0[p] = fsAtCall[p]
          /\ fsAtCall[p].data = "aka" /\ fs[p].data = "zkz"
    /\ \E p \in DOMAIN fs \ C14_Matched : IsFile(fs, p) /\ IsPrefix(mappingDestPath, p)

\* C16: within a mapping the phases come in the order clean target, copy,
\* loopback copy, explosion, rename, rewrite, none that is configured left
\* out and none started before the one before it is over; within a phase the
\* explode names, rename pairs and rewrite rules are taken in their listed
\* order, one at a time; the mappings are taken in their listed order, each
\* only after the one before it has gone through all its phases.
Phase(p, lb) ==
    CASE p \in {"main", "summarizeWarnConfirm", "mapping"} -> 0
      [] p = "cleanTargetDir" -> 1
      [] p = "CopyFiles" -> 2
      [] p \in {"pass1", "pass2", "copied"} -> IF lb THEN 3 ELSE 2
      [] p \in {"explodeDirs", "explode", "moving", "exploded"} -> 4
      [] p \in {"processRenames"} -> 5
      [] p \in {"processRewrites", "SearchAndReplace", "rewriting", "rewritten"} -> 6
      [] p = "mapped" -> 7
      [] OTHER -> 8

\* the phase is asked for by the configuration, at the end of the first copy
\* for the loopback copy
Configured(k) ==
    CASE k = 1 -> config.CleanTarget
      [] k = 2 -> TRUE
      [] k = 3 -> config.LoopbackCopy /\ Len(CopiedPaths(log)) > 0 /\ ~config.DryRun
      [] k = 4 -> Len(config.ExplodeDirs) > 0
      [] k = 5 -> Len(config.Renames) > 0
      [] k = 6 -> Len(config.FileRewrites) > 0
      [] OTHER -> FALSE

\* the index of the item at hand in a phase with a list
ItemIndex(k) == CASE k = 4 -> ei [] k = 5 -> ri [] k = 6 -> wi [] OTHER -> 1

ItemIndexAfter(k) == CASE k = 4 -> ei' [] k = 5 -> ri' [] k = 6 -> wi' [] OTHER -> 1

C16_Step ==
    LET from == Phase(pc, loopback)
        to == Phase(pc', loopback')
    IN  /\ mi' # mi => mi' = mi + 1 /\ pc = "mapped" /\ pc' = "mapping"
        /\ (mi' = mi /\ from # 7) => to >= from
        /\ (mi' = mi /\ from = 7) => pc' = "mapping"
        /\ (from < to /\ to <= 7) =>
              /\ \A k \in (from + 1)..(to - 1) : ~Configured(k)
              /\ (from > 0 => pc \in {"cleanTargetDir", "copied", "explodeDirs",
                                        "processRenames", "processRewrites"})
              /\ (from \in 4..6 => ItemIndex(from)
                     > Len(<<config.ExplodeDirs, config.Renames, config.FileRewrites>>[from - 3]))
              /\ (to \in 4..6 => ItemIndexAfter(to) = 1)
        /\ (from = to /\ from \in 4..6) =>
              /\ ItemIndexAfter(from) \in {ItemIndex(from), ItemIndex(from) + 1}
              /\ ItemIndexAfter(from) # ItemIndex(from) =>
                    /\ pc \in {"explodeDirs", "exploded", "processRenames",
                               "processRewrites", "rewritten"}
                    /\ pc' \in {"explodeDirs", "processRenames", "processRewrites"}
        /\ (from # 4 /\ ei' # ei) => to = 4
        /\ (from # 5 /\ ri' # ri) => to \in {4, 5}
        /\ (from # 6 /\ wi' # wi) => to \in {4, 5, 6}
        /\ fs' # fs => from \in {1, 2, 3, 4, 5, 6} /\ (to = from \/ to = 8 \/ from = 1)

C16_Order == [][C16_Step]_vars

\* the second mapping of a run with every phase configured is at its second
\* rewrite rule, after a loopback copy
C16_Witness ==
    /\ mi = 2 /\ pc = "rewritten" /\ wi = 2 /\ found /\ err = "nil"
    /\ loopback /\ config.CleanTarget /\ ~config.DryRun
    /\ Len(config.ExplodeDirs) > 0 /\ Len(config.Renames) > 0

\* C17: whenever CopyFiles, ClearDirectory, ExplodeFolder, the rename step or
\* SearchAndReplace returns an error, the call ends at once and the next step
\* of the run is the exit with a non-zero status, the filesystem unchanged;
\* nothing follows that exit.
C17_Returned == err # "nil" /\ pc \in {"copied", "exploded", "rewritten"}

C17_AsClaimed ==
    [][/\ (err = "nil" /\ err' # "nil") => pc' \in {"exit1", "copied", "exploded", "rewritten"}
       /\ C17_Returned => pc' = "exit1" /\ fs' = fs /\ err' = err
       /\ pc # "exit1"]_vars

\* a run that is not a dry run, with a rewrite rule whose glob is malformed,
\* has ended with status zero after it changed the filesystem
C17_Dropped ==
    /\ pc = "exit0"
    /\ ~config.DryRun
    /\ \E i \in 1..Len(config.FileRewrites) : BadPattern(config.FileRewrites[i].FileGlob)
    /\ fs # fs0

\* C18: when a mapping's source folder is not there, or the rewrites are
\* regular expressions and a rule's search pattern does not compile,
\* ParseAndValidate returns an error: no mapping is processed and the
\* filesystem stays as it was, whatever is listed before the bad item.
C18_NoSource ==
    {i \in 1..Len(config.Mappings) :
        ~IsDir(fs0, Join(config.SourceDir, <<config.Mappings[i].Source>>))}

C18_NoRegex ==
    {i \in 1..Len(config.FileRewrites) :
        config.RewritesAreRegex /\ ~RegexCompiles(config.FileRewrites[i].SearchPattern)}

C18_Rejected ==
    (C18_NoSource # {} \/ C18_NoRegex # {}) =>
        /\ pc \in {"main", "exit1"}
        /\ pc = "exit1" => err = "config"
        /\ fs = fs0
        /\ mi = 1 /\ runs = 0 /\ log = <<>> /\ ~prompted

\* the run has ended on a configuration whose second mapping has no source
\* folder and whose second rewrite rule does not compile
C18_Witness ==
    /\ pc = "exit1" /\ err = "config"
    /\ C18_NoSource = {2} /\ C18_NoRegex = {2}
    /\ ~config.DryRun

\* C19: a malformed glob is no configuration error.  ParseAndValidate rejects a
\* configuration only for its mappings and regular expressions; a malformed
\* include or exclude pattern matches nothing; a rewrite rule with a malformed
\* glob has SearchAndReplace return (false, error) with the filesystem as it
\* was, and the run goes on.
C19_Malformed ==
    \/ \E i \in 1..Len(config.CopyInclude) : BadPattern(config.CopyInclude[i])
    \/ \E i \in 1..Len(config.CopyExclude) : BadPattern(config.CopyExclude[i])
    \/ \E i \in 1..Len(config.FileRewrites) : BadPattern(config.FileRewrites[i].FileGlob)

C19_NotDetected ==
    /\ (pc = "exit1" /\ err = "config") => (C18_NoSource # {} \/ C18_NoRegex # {})
    /\ (pc = "rewritten" /\ BadPattern(config.FileRewrites[wi].FileGlob)) =>
            ~found /\ err = "glob" /\ fs = fsAtCall
    /\ (pc # "main" /\ C18_NoSource = {} /\ C18_NoRegex = {}) => err # "config"

\* C19 as worded: with a malformed glob in the configuration the run ends in
\* ParseAndValidate and nothing is touched
C19_AsClaimed ==
    C19_Malformed => pc \in {"main", "exit1"} /\ fs = fs0

\* a run with a malformed include pattern, a malformed exclude pattern and a
\* malformed rewrite glob has ended with status zero after it changed the
\* destination
C19_Witness ==
    /\ pc = "exit0" /\ ~config.DryRun /\ fs # fs0
    /\ \E i \in 1..Len(config.CopyInclude) : BadPattern(config.CopyInclude[i])
    /\ \E i \in 1..Len(config.CopyExclude) : BadPattern(config.CopyExclude[i])
    /\ \E i \in 1..Len(config.FileRewrites) : BadPattern(config.FileRewrites[i].FileGlob)

\* C20: the rename step takes the pairs in their listed order, after the
\* explosion; for a pair (oldName, newName) it renames the entry oldName that
\* lies directly in the destination folder, with all below it, to newName in
\* that folder; every other entry, one named oldName deeper down included,
\* stays where it is.
C20_Pair == config.Renames[ri]

C20_OldPath == Join(mappingDestPath, <<C20_Pair.OldName>>)

C20_NewPath == Join(mappingDestPath, <<C20_Pair.NewName>>)

\* a step of the rename phase that has dealt with the pair at hand
C20_Done == pc = "processRenames" /\ ri <= Len(config.Renames) /\ ri' = ri + 1

C20_Step ==
    /\ ri' # ri => \/ (ri' = 1 /\ pc = "copied")
                   \/ (C20_Done /\ pc' = "processRenames")
    /\ (pc = "processRenames" /\ ~C20_Done) => fs' = fs
    /\ (C20_Done /\ (config.DryRun \/ ~Exists(fs, C20_OldPath))) => fs' = fs
    /\ (C20_Done /\ ~config.DryRun /\ Exists(fs, C20_OldPath)) =>
          /\ ~Exists(fs', C20_OldPath)
          /\ \A p \in Subtree(fs, C20_OldPath) :
                LET q == Join(C20_NewPath, Rel(C20_OldPath, p))
                IN  Exists(fs', q) /\ fs'[q] = fs[p]
          /\ \A p \in DOMAIN fs :
                (~IsPrefix(C20_OldPath, p) /\ ~IsPrefix(C20_NewPath, p))
                    => Exists(fs', p) /\ fs'[p] = fs[p]
          /\ \A q \in DOMAIN fs' :
                \/ q \in DOMAIN fs /\ ~IsPrefix(C20_OldPath, q)
                \/ IsPrefix(C20_NewPath, q)
                      /\ Exists(fs, Join(C20_OldPath, Rel(C20_NewPath, q)))

C21_Below(f) == {p \in DOMAIN f : IsPrefix(mappingDestPath, p) /\ p # mappingDestPath}

C21_CleanStep ==
    (pc = "cleanTargetDir" /\ ~config.DryRun) =>
        IF IsDir(fs, mappingDestPath)
        THEN /\ pc' = "CopyFiles"
             /\ C21_Below(fs') = {}
             /\ IsDir(fs', mappingDestPath) /\ fs'[mappingDestPath] = fs[mappingDestPath]
             /\ \A p \in DOMAIN fs \ C21_Below(fs) : p \in DOMAIN fs' /\ fs'[p] = fs[p]
             /\ runs' = runs /\ copyArgs' = copyArgs
        ELSE pc' = "exit1" /\ err' # "nil" /\ fs' = fs

\* the clean step of the mapping at hand is over
C21_Past == mi <= Len(config.Mappings) /\ Phase(pc, loopback) \in 2..7

C21_NothingOld ==
    (config.CleanTarget /\ ~config.DryRun /\ C21_Past) =>
        \A p \in C21_Below(fs) : p \in DOMAIN fs0 => fs[p] # fs0[p]

C21_Clean == []C21_NothingOld /\ [][C21_CleanStep]_vars

\* a mapping whose destination held files and a folder before the run has been
\* cleaned and filled again
C21_Witness ==
    /\ config.CleanTarget /\ ~config.DryRun /\ pc = "mapped" /\ mi = 1
    /\ Cardinality(C21_Below(fs0)) >= 4
    /\ C21_Below(fs) # {}
    /\ \E p \in C21_Below(fs0) : p \notin DOMAIN fs

\* C22: when neither skip-confirm nor dry-run is set, the prompt has been
\* answered with yes before any clean, copy, explode, rename or rewrite step;
\* the answer no ends the run with the filesystem untouched.  With skip-confirm
\* or dry-run set no prompt is shown.
C22_MustAsk == ~config.SkipConfirm /\ ~config.DryRun

C22_Asked ==
    /\ (pc \notin {"main", "summarizeWarnConfirm"} /\ ~(pc = "exit1" /\ err = "config"))
           => (prompted <=> C22_MustAsk)
    /\ pc \in {"main", "summarizeWarnConfirm"} =>
           ~prompted /\ fs = fs0 /\ runs = 0 /\ log = <<>>

C22_Answer ==
    pc = "summarizeWarnConfirm" =>
        /\ fs' = fs
        /\ pc' \in {"mapping", "exit1"}
        /\ pc' = "exit1" => C22_MustAsk /\ prompted'
        /\ pc' = "mapping" => mi' = 1 /\ runs' = 0

C22_Confirm == []C22_Asked /\ [][C22_Answer]_vars /\ [][pc # "exit1"]_vars

\* the user has answered no: the run is over, nothing was touched
C22_Witness ==
    /\ pc = "exit1" /\ err = "nil" /\ prompted /\ fs = fs0
    /\ config.CleanTarget /\ C22_MustAsk

\* C25: the loopback copy is a second CopyFiles call on the mapping's source
\* and destination, made when the primary copy has returned, before any
\* explosion, only when loopback is enabled and the primary copy copied a
\* file; its include list is made from the copied files and its exclude list
\* is empty, so it can copy a file the primary copy excluded; it removes
\* nothing.
C25_Call ==
    (loopback' /\ ~loopback) =>
        /\ pc = "copied" /\ err = "nil" /\ pc' = "pass1"
        /\ config.LoopbackCopy
        /\ ~config.DryRun => Len(CopiedPaths(log)) > 0
        /\ \E filesCopied \in FilesCopied(log, config.DryRun) :
              /\ Len(filesCopied) > 0
              /\ copyArgs'.copyInclude = GlobifyFilenameOfPathList(filesCopied)
        /\ copyArgs'.copyExclude = <<>>
        /\ copyArgs'.sourcePath = mappingSourcePath
        /\ copyArgs'.destPath = mappingDestPath
        /\ copyArgs'.dryRun = config.DryRun
        /\ fs' = fs /\ ei' = ei /\ ri' = ri /\ wi' = wi

\* the primary copy has returned without an error: the loopback copy follows
\* when it is enabled and a file was copied, and not otherwise
C25_Due ==
    (pc = "copied" /\ ~loopback /\ err = "nil" /\ ~config.DryRun) =>
        (loopback' <=> (config.LoopbackCopy /\ Len(CopiedPaths(log)) > 0))

\* while the loopback copy runs every entry that was there at its call stays
C25_Keeps ==
    (loopback /\ pc \in {"pass1", "pass2", "copied"}) =>
        /\ DOMAIN fsAtCall \subseteq DOMAIN fs
        /\ \A p \in DOMAIN fsAtCall : fs[p].kind = fsAtCall[p].kind

C25_Loopback == []C25_Keeps /\ [][C25_Call /\ C25_Due]_vars

\* the loopback copy has copied a file that the exclude list kept out of the
\* primary copy
C25_Witness ==
    /\ loopback /\ pc = "copied" /\ err = "nil" /\ ~config.DryRun
    /\ \E p \in DOMAIN fs \ DOMAIN fsAtCall :
          /\ IsFile(fs, p)
          /\ \E i \in 1..Len(config.CopyExclude) :
                Match(config.CopyExclude[i], Rel(mappingDestPath, p))

\* C26: no step of a run, whether the run goes through or is cut short,
\* creates, removes, renames or changes an entry at or below the source
\* directory; the destination folders lie outside the source tree.
C26_Source(f) == {p \in DOMAIN f : IsPrefix(config.SourceDir, p)}

-----------------------------------------------------------------------------
(* Properties of SearchAndReplace alone, checked under SpecRewrite.        *)

\* C15: the literal rule ("*.m3u", "./multidisk", "./") applied to a matching
\* file that holds "./multidisk/disk1.bin" returns (true, nil) and leaves the
\* file holding ".//disk1.bin": the slash after the search term stays.
Playlist == Join(mappingDestPath, <<"g.m3u">>)

C15_Case ==
    /\ pc = "rewritten"
    /\ config.FileRewrites[wi] = RewriteRule("*.m3u", "./multidisk", "./")
    /\ ~config.RewritesAreRegex
    /\ fsAtCall[Playlist].data = "./multidisk/disk1.bin"

C15_Playlist ==
    C15_Case => found /\ err = "nil" /\ fs[Playlist].data = ".//disk1.bin"

\* C15 as worded: the file is left holding "./disk1.bin"
C15_AsClaimed ==
    C15_Case => fs[Playlist].data = "./disk1.bin"

C15_Witness ==
    C15_Case /\ found /\ err = "nil" /\ fs[Playlist] # fsAtCall[Playlist]

\* C23: when the rewrites are regular expressions and the search pattern does
\* not compile, SearchAndReplace writes to no file.  When the glob matches
\* something it returns (true, error); when the glob matches nothing it has
\* returned (false, nil) before the pattern is compiled.
C23_Rule == config.FileRewrites[wi]

C23_Case ==
    /\ pc = "rewritten"
    /\ config.RewritesAreRegex
    /\ ~RegexCompiles(C23_Rule.SearchPattern)

C23_NoCompile ==
    C23_Case =>
        /\ fs = fsAtCall
        /\ IF FilepathGlob(fsAtCall, mappingDestPath, C23_Rule.FileGlob) # {}
           THEN found /\ err = "regex"
           ELSE ~found /\ err = "nil"

\* C23 as worded: the call returns an error
C23_AsClaimed == C23_Case => err # "nil" /\ fs = fsAtCall

\* the call has returned the compile error on a glob that matched two
\* playlists, one of them not empty
C23_Witness ==
    /\ C23_Case /\ found /\ err = "regex"
    /\ Cardinality(FilepathGlob(fs, mappingDestPath, C23_Rule.FileGlob)) = 2
    /\ fs[Playlist].data # ""

\* C24: when a matched path cannot be read, SearchAndReplace stops there and
\* returns (true, error): the files it rewrote before keep their new content,
\* the path that failed and the matched paths not yet reached are as they
\* were, as is every path the glob did not match.
C24_Matched == FilepathGlob(fsAtCall, mappingDestPath, config.FileRewrites[wi].FileGlob)

C24_Stopped == pc = "rewritten" /\ err = "read"

C24_State ==
    C24_Stopped =>
        /\ found
        /\ DOMAIN fs = DOMAIN fsAtCall
        /\ matches # {} /\ matches \subseteq C24_Matched
        /\ \E p \in matches : ~IsFile(fs, p)
        /\ \A p \in DOMAIN fs :
              IF p \in C24_Matched \ matches
              THEN fs[p] = [fsAtCall[p] EXCEPT !.data =
                              Replaced(fsAtCall[p].data, config.FileRewrites[wi],
                                       config.RewritesAreRegex)]
              ELSE fs[p] = fsAtCall[p]

\* the step that meets the error writes nothing and takes nothing back
C24_Step ==
    (pc = "rewriting" /\ pc' = "rewritten" /\ err' # "nil") =>
        fs' = fs /\ matches' = matches /\ found' = found

-----------------------------------------------------------------------------
(* Properties of GetConfirmation alone, checked under SpecConfirm.         *)

\* two characters that are one letter, in either case
C30_SameLetter(a, b) ==
    \/ a = b
    \/ \E i \in 1..Len(UpperCase) :
          {a, b} = {SubSeq(UpperCase, i, i), SubSeq(LowerCase, i, i)}

\* the line is the word, in any case, with white space around it
C30_Says(line, word) ==
    \E i \in 1..(Len(line) + 1) :
        /\ i + Len(word) - 1 <= Len(line)
        /\ \A k \in 1..Len(word) :
              C30_SameLetter(SubSeq(line, i + k - 1, i + k - 1), SubSeq(word, k, k))
        /\ \A k \in (1..Len(line)) \ (i..(i + Len(word) - 1)) :
              SubSeq(line, k, k) \in WhiteSpace

\* what one read of a line leads to
C30_Answer ==
    (pc = "read" /\ stdin.lines # <<>>) =>
        LET line == Head(stdin.lines)
        IN  IF C30_Says(line, "y") \/ C30_Says(line, "yes")
            THEN pc' = "confirmed" /\ confirmation' = "true"
            ELSE IF C30_Says(line, "n") \/ C30_Says(line, "no")
            THEN pc' = "confirmed" /\ confirmation' = "false"
            ELSE pc' = "prompt" /\ confirmation' = "none"

\* C30: GetConfirmation returns in the end on every input: true after a
\* line that is y or yes in any case and with white space around it, false
\* after n or no, after any other line it prompts again, and it also ends
\* when the input ends or fails before a valid answer was read.
C30_AsClaimed ==
    /\ [][C30_Answer]_vars
    /\ <>(pc = "confirmed")

\* a read has met the end of the input, nothing was returned, and the loop
\* is at its top again
C30_Witness ==
    /\ pc = "prompt" /\ confirmation = "none"
    /\ err \in ConfirmEnds
    /\ stdin.lines = <<>> /\ stdin.rest = ""

====
